---- MODULE Spec2Model ----
(***************************************************************************)
(* Model of the ogier EPUB reader front-end (l1yefeng/ogier).              *)
(*                                                                         *)
(* Part 1: the modal dialogs (BaseModal, ModalCoordinator and the entry    *)
(*         points of ReadScreen that open them).                           *)
(* Part 2: the table-of-contents tracker (NavModal.mostRecentNavPoint with *)
(*         ReadScreen.#setTocBtnLabel, and the later                       *)
(*         NavModal.restartClosestNavPointTask).                           *)
(***************************************************************************)
EXTENDS Integers, Sequences, FiniteSets, TLC

(***************************************************************************)
(* Part 1: modals                                                          *)
(***************************************************************************)

\* The keys under which the modals register themselves in
\* ModalCoordinator.modals.
Modals == {"details", "nav", "preview", "fonts"}

\* The modals whose constructor sets locked = true.
LockedAtConstruction == {"details", "nav"}

VARIABLES
    modals,        \* ModalCoordinator.modals: registered keys, insertion order
    open,          \* open[m]: HTMLDialogElement.open of m's <dialog>
    locked,        \* locked[m]: BaseModal.locked of m
    navInit,       \* progress of NavModal.init: none / fetching / done / failed
    tocBtnDisabled,\* ReadScreenDomContext.#tocBtn.disabled
    menuListening, \* set of menu events ("menu/f_d", "menu/f_n") listened to
    last           \* the last operation: its argument, result and pre-state

modalVars == <<modals, open, locked, navInit, tocBtnDisabled, menuListening, last>>

VARIABLES
    tracker,       \* which revision of the tracker runs (see Part 2)
    entries,       \* the buttons of the TOC's <nav> that carry a data-path
    marks,         \* marks[i]: the autofocus and disabled flags of button i
    closest,       \* #lastMostRecentNavPoint / #closestNavPoint (0: null)
    tocLabel,      \* the TOC button's label: 0 (default title) or a button
    pageUrl,       \* ReadScreen.pageUrl (its pathname)
    loads,         \* number of Reader.open calls that have not settled
    taskLive,      \* the repeating task has a live interval timer
    navPoints,     \* the navPoints array captured by the repeating task
    lastRun        \* the last recomputation: its inputs and its result

navVars == <<tracker, entries, marks, closest, tocLabel, pageUrl, loads,
             taskLive, navPoints, lastRun>>

VARIABLES
    fnIn,          \* arguments of a call of mostRecentNavPoint
    fnOut          \* <<>> before the call, <<its result>> after it

fnVars == <<fnIn, fnOut>>

VARIABLES
    handle,        \* handle[r]: TaskRepeater.#handle of the repeater r
    intervals,     \* the window's live interval timers
    nextTimer,     \* the id the next window.setInterval returns
    generation,    \* generation[r]: number of restart calls on r so far
    ranGen,        \* ranGen[r]: the generation of the callback of r run last
    taskLast       \* the last step of a repeater: restart or tick

taskVars == <<handle, intervals, nextTimer, generation, ranGen, taskLast>>

VARIABLES
    renderer,      \* which revision of the page renderer runs (see Part 4)
    pageLoads,     \* the calls of the renderer, in the order they were made
    rootContent,   \* the children of the reader's shadow root
    progressCall,  \* the call whose callback saveReadingProgressTask runs
    progressLast   \* the last tick of saveReadingProgressTask

readerVars == <<renderer, pageLoads, rootContent, progressCall, progressLast>>

VARIABLES
    geometry,      \* the heights of the host's box and of the content, scrollTop
    posStep,       \* measured / published / restored
    published,     \* <<>> or <<the fraction handed to rs.setReadingPosition>>
    restored       \* <<>> or <<the top handed to host.scroll>>

posVars == <<geometry, posStep, published, restored>>

VARIABLES
    editor,        \* which revision of the customization editor runs (Part 6)
    styler,        \* which revision of the styler runs
    prefsStore,    \* whether the context has a preference store
    stylesCall,    \* the step processStyles is at, the CSS it was given last,
                   \* whether a call has come to the editor since the start
    defaults,      \* the values the controls of the page start with
    inputs,        \* inputs[key]: valueAsNumber of the control of key
    handleChange,  \* whether the controls have their change handler
    filewiseStyles,\* <<>> or <<the record the styler was handed last>>
    layers,        \* the styler's stylesheets and the host's inline padding
    savedStyles,   \* the saved record of the open book
    styleLast      \* the last operation on the styles

styleVars == <<editor, styler, prefsStore, stylesCall, defaults, inputs, handleChange, filewiseStyles,
               layers, savedStyles, styleLast>>

VARIABLES
    fontNames,     \* the two font names handed to #customPropertyForFont
    fontProps      \* <<>> before the calls, the two property names after

fontVars == <<fontNames, fontProps>>

VARIABLES
    navigator,     \* which revision of the spine navigation runs (Part 8)
    readingPosition, \* the page shown and its index in the spine
    spineLast      \* the last navigation: where it started, what it did

spineVars == <<navigator, readingPosition, spineLast>>

VARIABLES
    linkedCssResources, \* the paths whose stylesheet the styler has kept
    sheetLoad,     \* sheetLoad[path]: how the path fares in the call of load
    adopted,       \* the linked stylesheets in adoptedStyleSheets, in order
    loadPromise    \* the promise load returned: none / pending / resolved

loadVars == <<linkedCssResources, sheetLoad, adopted, loadPromise>>

VARIABLES
    tocOpen,       \* HTMLDialogElement.open of the nav modal's <dialog>
    returnValue,   \* HTMLDialogElement.returnValue of that <dialog>
    navigations,   \* number of calls of the navigate callback so far
    tocLast        \* the last event on the dialog and what its close did

tocVars == <<tocOpen, returnValue, navigations, tocLast>>

VARIABLES
    openedEpub,    \* Context.openedEpub: <<>> for null, else <<the AboutPub>>
    epubLang,      \* Context.epubLang: <<>> for null, else <<the string>>
    epubTitle,     \* Context.epubTitle: <<>> for null, else <<the string>>
    spineIndex,    \* Context.spineIndex: <<>> for null, else <<the map>>
    contextLast    \* the last call of a getter of Context and its result

contextVars == <<openedEpub, epubLang, epubTitle, spineIndex, contextLast>>

moreVars == <<fontVars, spineVars, loadVars, tocVars, contextVars>>

laterVars == <<taskVars, readerVars, posVars, styleVars, moreVars>>

\* What the actions of each part leave alone.
earlierVars == <<modalVars, navVars, fnVars, taskVars, readerVars, posVars, styleVars>>
taskOthers == <<modalVars, navVars, fnVars, readerVars, posVars, styleVars, moreVars>>
readerOthers == <<modalVars, navVars, fnVars, posVars, styleVars, moreVars>>
posOthers == <<modalVars, navVars, fnVars, taskVars, readerVars, styleVars, moreVars>>
styleOthers == <<modalVars, navVars, fnVars, taskVars, readerVars, posVars, moreVars>>
fontOthers == <<earlierVars, spineVars, loadVars, tocVars, contextVars>>
spineOthers == <<earlierVars, fontVars, loadVars, tocVars, contextVars>>
loadOthers == <<earlierVars, fontVars, spineVars, tocVars, contextVars>>
tocOthers == <<earlierVars, fontVars, spineVars, loadVars, contextVars>>
contextOthers == <<earlierVars, fontVars, spineVars, loadVars, tocVars>>

vars == <<modalVars, navVars, fnVars, laterVars>>

Range(s) == {s[i] : i \in DOMAIN s}

NoCloseCalls == [m \in Modals |-> "none"]

BoolStr(b) == IF b THEN "true" ELSE "false"

\* The record kept of the last operation.
Call(op, arg, ret, closeRet, lockedAtCall) ==
    [op |-> op, arg |-> arg, ret |-> ret, closeRet |-> closeRet,
     preOpen |-> open, preLocked |-> lockedAtCall]

\* X.get(): the lazily constructed singleton.  The constructor registers the
\* modal and (nav, details) locks it.
Register(reg, m) == IF m \in Range(reg) THEN reg ELSE Append(reg, m)

ModalsAfterGet(m) == Register(modals, m)

LockedAfterGet(m) ==
    IF m \in Range(modals) THEN locked
    ELSE [locked EXCEPT ![m] = (m \in LockedAtConstruction)]

\* close() that reports success without closing the dialog.
BaseClose_NoClose(o, l) ==
    IF ~o THEN [ret |-> TRUE, open |-> o]
    ELSE IF l THEN [ret |-> FALSE, open |-> o]
    ELSE [ret |-> TRUE, open |-> o]

\* close() that closes the dialog before it looks at the lock.
BaseClose_CloseThenVeto(o, l) ==
    IF ~o THEN [ret |-> TRUE, open |-> o]
    ELSE [ret |-> ~l, open |-> FALSE]

\* close() with the lock test inverted.
BaseClose_InvertedLock(o, l) ==
    IF ~o THEN [ret |-> TRUE, open |-> o]
    ELSE IF ~l THEN [ret |-> FALSE, open |-> o]
    ELSE [ret |-> TRUE, open |-> FALSE]

\* close() that looks at the lock before it looks at the dialog.
BaseClose_LockFirst(o, l) ==
    IF l THEN [ret |-> FALSE, open |-> o]
    ELSE [ret |-> TRUE, open |-> FALSE]

\* BaseModal.close(), on a modal whose dialog is open = o and which is
\* locked = l: the result and the dialog's open flag afterwards.
BaseClose(o, l) ==
    IF ~o THEN [ret |-> TRUE, open |-> o]
    ELSE IF l THEN [ret |-> FALSE, open |-> o]
    ELSE [ret |-> TRUE, open |-> FALSE]

\* show without the early return for a locked modal.
CanShow_IgnoreLock(o, l) == ~o

\* The two early returns of ModalCoordinator.show.
CanShow(o, l) == ~o /\ ~l

\* The loop of ModalCoordinator.show over the registered modals, from
\* position i on: closes every modal other than m, and stops at the first
\* one whose close() returns false.
RECURSIVE CloseOthers(_, _, _, _, _, _)
CloseOthers(m, reg, lk, i, op, cr) ==
    IF i > Len(reg) THEN [ok |-> TRUE, open |-> op, closeRet |-> cr]
    ELSE LET id == reg[i] IN
         IF id = m THEN CloseOthers(m, reg, lk, i + 1, op, cr)
         ELSE LET c == BaseClose(op[id], lk[id]) IN
              IF ~c.ret
              THEN [ok |-> FALSE, open |-> [op EXCEPT ![id] = c.open],
                    closeRet |-> [cr EXCEPT ![id] = "false"]]
              ELSE CloseOthers(m, reg, lk, i + 1,
                               [op EXCEPT ![id] = c.open],
                               [cr EXCEPT ![id] = "true"])

\* ModalCoordinator.show(m) with the registry reg and the locks lk.
CoordinatorShow(m, reg, lk) ==
    IF ~CanShow(open[m], lk[m])
    THEN [ret |-> FALSE, open |-> open, closeRet |-> NoCloseCalls]
    ELSE LET r == CloseOthers(m, reg, lk, 1, open, NoCloseCalls) IN
         IF ~r.ok
         THEN [ret |-> FALSE, open |-> r.open, closeRet |-> r.closeRet]
         ELSE [ret |-> TRUE, open |-> [r.open EXCEPT ![m] = TRUE],
               closeRet |-> r.closeRet]

\* X.get().show() of the modal m (NavModal.show, DetailsModal.show,
\* PreviewModal.show, FontsModal.show).
Show(m) ==
    LET reg == ModalsAfterGet(m)
        lk == LockedAfterGet(m)
        r == CoordinatorShow(m, reg, lk)
    IN /\ modals' = reg
       /\ locked' = lk
       /\ open' = r.open
       /\ last' = Call("show", m, BoolStr(r.ret), r.closeRet, lk)
       /\ UNCHANGED <<navInit, tocBtnDisabled, menuListening>>
       /\ UNCHANGED <<navVars, fnVars, laterVars>>

\* The TOC button's onclick handler.  A disabled button fires no click.
TocBtnClick ==
    /\ ~tocBtnDisabled
    /\ Show("nav")

\* ReadScreen.handleKeyEvent for the keys 't' and 'd'/'i'.  inControl: the
\* event's target is inside an input, a button or a dialog.
HandleKeyEvent ==
    \E key \in {"t", "d"}, inControl \in BOOLEAN :
        IF inControl THEN UNCHANGED vars
        ELSE IF key = "t" THEN Show("nav") ELSE Show("details")

\* The listeners of "menu/f_d" and "menu/f_n".
MenuEvent ==
    \E ev \in menuListening :
        IF ev = "menu/f_d" THEN Show("details") ELSE Show("nav")

\* ReadScreen.previewSamePageLocation: PreviewModal.get().show(clone, lang).
PreviewShow == Show("preview")

\* FontsModal.get().show().
FontsShow == Show("fonts")

\* ReadScreen.initDetailsAndTocModals up to the await inside NavModal.init.
\* hasTocUrl: the publication has a TOC URL.
InitDetailsAndTocModals ==
    /\ navInit = "none"
    /\ \E hasTocUrl \in BOOLEAN :
        LET reg == Register(ModalsAfterGet("details"), "nav")
        IN /\ modals' = reg
           /\ locked' = [locked EXCEPT !["details"] = FALSE, !["nav"] = FALSE]
           /\ navInit' = IF hasTocUrl THEN "fetching" ELSE "failed"
           /\ tocBtnDisabled' = IF hasTocUrl THEN tocBtnDisabled ELSE TRUE
           /\ menuListening' = menuListening \cup {"menu/f_d"}
           /\ last' = Call("init", "nav", "none", NoCloseCalls, locked)
           /\ UNCHANGED <<open, navVars, fnVars, laterVars>>

\* The rest of NavModal.init and of initDetailsAndTocModals once fetchXml
\* has settled.  ok: the document arrived and has a proper nav element.
NavInitSettle ==
    /\ navInit = "fetching"
    /\ \E ok \in BOOLEAN :
        /\ navInit' = IF ok THEN "done" ELSE "failed"
        /\ tocBtnDisabled' = IF ok THEN tocBtnDisabled ELSE TRUE
        /\ menuListening' = IF ok THEN menuListening \cup {"menu/f_n"}
                            ELSE menuListening
        /\ last' = Call("initSettled", "nav", "none", NoCloseCalls, locked)
        /\ UNCHANGED <<modals, open, locked, navVars, fnVars, laterVars>>

\* The listener without the lock test (as in the earlier Modal class).
BackdropClose_IgnoreLock(o, l) == FALSE

\* The click listener on the <dialog> element: the open flag afterwards.
BackdropClose(o, l) == IF ~l THEN FALSE ELSE o

\* The click listener on the shell (the dialog's first child) stops the
\* propagation: the dialog's listener runs only for clicks outside the shell.
ReachesDialog(insideShell) == ~insideShell

\* A click on the open dialog of m, inside or outside its shell.
Click(m, insideShell) ==
    /\ m \in Range(modals)
    /\ open[m]
    /\ open' = IF ReachesDialog(insideShell)
               THEN [open EXCEPT ![m] = BackdropClose(open[m], locked[m])]
               ELSE open
    /\ last' = Call(IF insideShell THEN "innerClick" ELSE "backdropClick",
                    m, "none", NoCloseCalls, locked)
    /\ UNCHANGED <<modals, locked, navInit, tocBtnDisabled, menuListening>>
    /\ UNCHANGED <<navVars, fnVars, laterVars>>

\* A click on m's backdrop (outside the shell).
BackdropClick(m) == Click(m, FALSE)

\* A click inside the shell.
InnerClick(m) == Click(m, TRUE)

(***************************************************************************)
(* Part 2: the table-of-contents tracker                                   *)
(*                                                                         *)
(* Two revisions of the tracker are in the source.  In "ReadScreen" the    *)
(* repeating task is ReadScreen.#setTocBtnLabel, which calls               *)
(* NavModal.mostRecentNavPoint; in "NavModal" the task is the closure      *)
(* built by NavModal.restartClosestNavPointTask.  A behaviour runs one of  *)
(* them.                                                                   *)
(***************************************************************************)

\* Bounds.
MaxEntries == 3      \* buttons handed to a single call of mostRecentNavPoint
MaxTocEntries == 2   \* buttons of the TOC of a tracked book
NumPaths == 2        \* distinct page paths
MaxOffset == 2       \* largest pixel offset of an anchored element
MaxLoads == 2        \* page loads in flight at once

Paths == 1..NumPaths
AnchorIds == {"a", "b"}
LocationIds == {""} \cup AnchorIds
Offsets == 0..MaxOffset
ViewOffsets == -1..MaxOffset

\* getTargetOffset yields null for an id that is not in the page.
NoElement == -1

\* The pages' anchors: the offset of the element with each id, or NoElement.
Layouts == [AnchorIds -> Offsets \cup {NoElement}]

\* A button: dataset.path and dataset.locationId ("" without a hash).
Buttons == [path : Paths, locationId : LocationIds]

ButtonLists(n) == UNION {[1..k -> Buttons] : k \in 0..n}

\* The TOCs of the tracked books: their anchored buttons point at "a".
TocButtons == {b \in Buttons : b.locationId \in {"", "a"}}

TocLists(n) == UNION {[1..k -> TocButtons] : k \in 0..n}

\* The layouts of their pages: the element "a" moves, "b" is absent.
TocLayouts == {l \in Layouts : l["b"] = NoElement}

NullBtn == 0

\* The lookup handed to mostRecentNavPoint:
\* id => this.reader.calculateTargetOffsetPx(id) ?? 0.
GetAnchoredOffset(layout, id) ==
    IF layout[id] = NoElement THEN 0 ELSE layout[id]

\* const anchoredOffset = btn.dataset.locationId ? getAnchoredOffset(id) : 0
AnchoredOffset(btn, layout) ==
    IF btn.locationId # "" THEN GetAnchoredOffset(layout, btn.locationId) ELSE 0

\* querySelectorAll(`button[data-path="${currentPath}"]`): the matching
\* buttons' indices, in document order.
MatchingButtons(ents, path) ==
    SelectSeq([i \in 1..Len(ents) |-> i], LAMBDA i : ents[i].path = path)

\* The test with > in place of >=.
Supersedes_Strict(anchoredOffset, kept) == anchoredOffset > kept

\* The test that lets a qualifying button replace the one kept so far.
Supersedes(anchoredOffset, kept) == anchoredOffset >= kept

\* The loop of mostRecentNavPoint over the matching buttons btns, from
\* position k on; mostRecent is <<>> (null) or <<offset, button>>.
RECURSIVE ScanButtons(_, _, _, _, _, _)
ScanButtons(ents, btns, offset, layout, k, mostRecent) ==
    IF k > Len(btns) THEN mostRecent
    ELSE LET btn == btns[k]
             anchoredOffset == AnchoredOffset(ents[btn], layout)
         IN IF /\ offset >= anchoredOffset
               /\ (mostRecent = <<>> \/ Supersedes(anchoredOffset, mostRecent[1]))
            THEN ScanButtons(ents, btns, offset, layout, k + 1,
                             <<anchoredOffset, btn>>)
            ELSE ScanButtons(ents, btns, offset, layout, k + 1, mostRecent)

\* mostRecentNavPoint falling back to the first button of the page.
MostRecentNavPoint_Fallback(ents, currentPath, offset, layout) ==
    LET btns == MatchingButtons(ents, currentPath) IN
    IF Len(btns) = 0 THEN NullBtn
    ELSE LET mostRecent == ScanButtons(ents, btns, offset, layout, 1, <<>>)
         IN IF mostRecent # <<>> THEN mostRecent[2] ELSE btns[1]

\* The button mostRecentNavPoint returns (NullBtn for null).
MostRecentNavPoint(ents, currentPath, offset, layout) ==
    LET btns == MatchingButtons(ents, currentPath) IN
    IF Len(btns) = 0 THEN NullBtn
    ELSE LET mostRecent == ScanButtons(ents, btns, offset, layout, 1, <<>>)
         IN IF mostRecent # <<>> THEN mostRecent[2] ELSE NullBtn

Unmarked == [autofocus |-> FALSE, disabled |-> FALSE]
Marked == [autofocus |-> TRUE, disabled |-> TRUE]

\* The update that leaves the previously returned button marked.
UnmarkLast_Noop(mk, lastBtn) == mk

\* mostRecentNavPoint's update of the previously returned button:
\* if (this.#lastMostRecentNavPoint) { autofocus = false; disabled = false }
UnmarkLast(mk, lastBtn) ==
    IF lastBtn # NullBtn THEN [mk EXCEPT ![lastBtn] = Unmarked] ELSE mk

\* The marks after mostRecentNavPoint has found btn (NullBtn: none found).
MarksAfterMostRecent(mk, lastBtn, btn) ==
    IF btn # NullBtn
    THEN [UnmarkLast(mk, lastBtn) EXCEPT ![btn] = Marked]
    ELSE mk

\* NavModal.#unsetClosestNavPoint.
UnsetClosestNavPoint(mk, cl) ==
    IF cl # NullBtn THEN [mk EXCEPT ![cl] = Unmarked] ELSE mk

\* NavModal.#setClosestNavPoint(btn): the marks afterwards.
SetClosestNavPoint(mk, cl, btn) ==
    [UnsetClosestNavPoint(mk, cl) EXCEPT ![btn] = Marked]

\* The resolved offset of a button as restartClosestNavPointTask computes it:
\* id ? (getTargetOffset(id) ?? 0) : 0.
TargetOffset(btn, layout) ==
    IF btn.locationId # ""
    THEN (IF layout[btn.locationId] = NoElement THEN 0 ELSE layout[btn.locationId])
    ELSE 0

\* navPoints.sort((a, b) => b[1] - a[1]): a stable sort, offsets high to low.
RECURSIVE InsertDesc(_, _)
InsertDesc(sorted, np) ==
    IF sorted = <<>> THEN <<np>>
    ELSE IF Head(sorted)[2] >= np[2]
         THEN <<Head(sorted)>> \o InsertDesc(Tail(sorted), np)
         ELSE <<np>> \o sorted

RECURSIVE SortDesc(_)
SortDesc(nps) ==
    IF nps = <<>> THEN <<>>
    ELSE InsertDesc(SortDesc(SubSeq(nps, 1, Len(nps) - 1)), nps[Len(nps)])

\* The array of [button, offset] pairs built by restartClosestNavPointTask.
NavPointsOf(ents, btns, layout) ==
    SortDesc([k \in 1..Len(btns) |-> <<btns[k], TargetOffset(ents[btns[k]], layout)>>])

\* navPoints.find(([_btn, offset]) => offset <= viewOffset): its position
\* (0 when there is none).
RECURSIVE FindFrom(_, _, _)
FindFrom(nps, viewOffset, k) ==
    IF k > Len(nps) THEN 0
    ELSE IF nps[k][2] <= viewOffset THEN k
    ELSE FindFrom(nps, viewOffset, k + 1)

\* The button the task of restartClosestNavPointTask selects:
\* navPoints.find(...) ?? navPoints[navPoints.length - 1].
TaskChoice(nps, viewOffset) ==
    LET k == FindFrom(nps, viewOffset, 1) IN
    IF k # 0 THEN nps[k][1] ELSE nps[Len(nps)][1]

\* What the claims need of a recomputation: who ran it, for which path, the
\* button chosen, the button remembered before, whether no button of the
\* page had a resolved offset <= the view offset and, if so, the buttons of
\* the page that have the least resolved offset.
Run(by, path, result, noneQualifies, lowest) ==
    [by |-> by, path |-> path, result |-> result, prev |-> closest,
     noneQualifies |-> noneQualifies,
     lowest |-> IF noneQualifies THEN lowest ELSE {}]

NoRun ==
    [by |-> "none", path |-> 1, result |-> NullBtn, prev |-> NullBtn,
     noneQualifies |-> FALSE, lowest |-> {}]

\* The buttons of the page path, with their offsets resolved in layout.
PageButtons(path) == {i \in 1..Len(entries) : entries[i].path = path}

NoneQualifies(path, viewOffset, layout) ==
    \A i \in PageButtons(path) : AnchoredOffset(entries[i], layout) > viewOffset

Lowest(path, layout) ==
    {i \in PageButtons(path) :
        \A j \in PageButtons(path) :
            AnchoredOffset(entries[i], layout) <= AnchoredOffset(entries[j], layout)}

\* ReadScreen.#setTocBtnLabel, with the view offset and the page's layout as
\* the DOM gives them at that moment.
SetTocBtnLabel(viewOffset, layout) ==
    LET btn == MostRecentNavPoint(entries, pageUrl, viewOffset, layout) IN
    /\ marks' = MarksAfterMostRecent(marks, closest, btn)
    /\ closest' = IF btn # NullBtn THEN btn ELSE closest
    /\ tocLabel' = btn
    /\ lastRun' = Run("setTocBtnLabel", pageUrl, btn,
                      NoneQualifies(pageUrl, viewOffset, layout),
                      Lowest(pageUrl, layout))

\* TaskRepeater.stop(): the interval timer is cleared.
TaskStop == taskLive' = FALSE

\* The callers of ReadScreen.readPage (jumpTo, moveInSpine) set pageUrl;
\* readPage stops the task and starts Reader.open.
ReadPageStart ==
    /\ tracker = "ReadScreen"
    /\ loads < MaxLoads
    /\ \E url \in Paths : pageUrl' = url
    /\ TaskStop
    /\ loads' = loads + 1
    /\ UNCHANGED <<tracker, entries, marks, closest, tocLabel, navPoints, lastRun>>
    /\ UNCHANGED <<modalVars, fnVars, laterVars>>

\* Reader.open has settled: readPage restarts the task, which runs it once
\* at once and then on every tick.
ReadPageDone ==
    /\ tracker = "ReadScreen"
    /\ loads > 0
    /\ loads' = loads - 1
    /\ \E viewOffset \in ViewOffsets, layout \in TocLayouts :
          SetTocBtnLabel(viewOffset, layout)
    /\ taskLive' = TRUE
    /\ UNCHANGED <<tracker, entries, pageUrl, navPoints, modalVars, fnVars,
                   laterVars>>

\* A tick of refreshTocBtnLabelTask.
TocBtnLabelTick ==
    /\ tracker = "ReadScreen"
    /\ taskLive
    /\ \E viewOffset \in ViewOffsets, layout \in TocLayouts :
          SetTocBtnLabel(viewOffset, layout)
    /\ UNCHANGED <<tracker, entries, pageUrl, loads, taskLive, navPoints>>
    /\ UNCHANGED <<modalVars, fnVars, laterVars>>

\* The closure `task` of restartClosestNavPointTask, run with the view
\* offset the DOM gives at that moment.
ClosestNavPointTask(nps, path, viewOffset) ==
    LET btn == TaskChoice(nps, viewOffset) IN
    /\ tocLabel' = btn
    /\ marks' = SetClosestNavPoint(marks, closest, btn)
    /\ closest' = btn
    /\ lastRun' = Run("task", path, btn,
                      \A k \in 1..Len(nps) : nps[k][2] > viewOffset,
                      {nps[k][1] : k \in {j \in 1..Len(nps) :
                                            \A h \in 1..Len(nps) : nps[j][2] <= nps[h][2]}})

\* NavModal.restartClosestNavPointTask(url, getCurrentOffset, getTargetOffset)
\* once init has set the external label.
RestartClosestNavPointTask ==
    /\ tracker = "NavModal"
    /\ \E url \in Paths, layout \in TocLayouts, viewOffset \in ViewOffsets :
        LET btns == MatchingButtons(entries, url) IN
        /\ pageUrl' = url
        /\ IF Len(btns) = 0
           THEN /\ tocLabel' = NullBtn
                /\ marks' = UnsetClosestNavPoint(marks, closest)
                /\ lastRun' = Run("restart", url, NullBtn, TRUE, {})
                /\ UNCHANGED <<closest, taskLive, navPoints>>
           ELSE IF Len(btns) = 1
           THEN /\ tocLabel' = btns[1]
                /\ marks' = SetClosestNavPoint(marks, closest, btns[1])
                /\ closest' = btns[1]
                /\ lastRun' = Run("restart", url, btns[1],
                                  NoneQualifies(url, viewOffset, layout),
                                  Lowest(url, layout))
                /\ UNCHANGED <<taskLive, navPoints>>
           ELSE LET nps == NavPointsOf(entries, btns, layout) IN
                /\ navPoints' = nps
                /\ taskLive' = TRUE
                /\ ClosestNavPointTask(nps, url, viewOffset)
    /\ UNCHANGED <<tracker, entries, loads, modalVars, fnVars, laterVars>>

\* A tick of #closestNavPointTask.
ClosestNavPointTick ==
    /\ tracker = "NavModal"
    /\ taskLive
    /\ \E viewOffset \in ViewOffsets :
          ClosestNavPointTask(navPoints, entries[navPoints[1][1]].path, viewOffset)
    /\ UNCHANGED <<tracker, entries, pageUrl, loads, taskLive, navPoints>>
    /\ UNCHANGED <<modalVars, fnVars, laterVars>>

\* NavModal.stopClosestNavPointTask.
StopClosestNavPointTask ==
    /\ tracker = "NavModal"
    /\ TaskStop
    /\ marks' = UnsetClosestNavPoint(marks, closest)
    /\ UNCHANGED <<tracker, entries, closest, tocLabel, pageUrl, loads,
                   navPoints, lastRun, modalVars, fnVars, laterVars>>

NotCalled == <<>>

\* A call of mostRecentNavPoint on the arguments drawn.
ApplyMostRecentNavPoint ==
    /\ fnOut = NotCalled
    /\ fnOut' = <<MostRecentNavPoint(fnIn.entries, fnIn.currentPath,
                                     fnIn.offset, fnIn.layout)>>
    /\ UNCHANGED <<fnIn, modalVars, navVars, laterVars>>

(***************************************************************************)
(* Part 3: TaskRepeater                                                    *)
(*                                                                         *)
(* The two repeaters of a reading session (refreshTocBtnLabelTask and      *)
(* saveReadingProgressTask) share the window's interval timers.            *)
(***************************************************************************)

\* Bound: restart calls on one repeater.
MaxRestarts == 3

Repeaters == {"refreshTocBtnLabelTask", "saveReadingProgressTask"}

\* #handle: number | null = null
NullHandle == 0

\* window.clearInterval that cancels nothing.
ClearInterval_Noop(timers, h) == timers

\* window.clearInterval(h): the timers that stay live.
ClearInterval(timers, h) == {t \in timers : t.id # h}

\* The record kept of the last step of a repeater.
TaskStep(op, r, gen) == [op |-> op, task |-> r, gen |-> gen]

\* The state of the repeaters and of the window's timers, as one value.
Tasks ==
    [handle |-> handle, intervals |-> intervals, nextTimer |-> nextTimer,
     generation |-> generation, ranGen |-> ranGen]

\* TaskRepeater.restart(f) on the repeater r, from the state ts.  thrown: f()
\* throws on its immediate call, which leaves restart before
\* window.setInterval.
RestartOn(ts, r, thrown) ==
    LET kept == IF ts.handle[r] # NullHandle
                THEN ClearInterval(ts.intervals, ts.handle[r])
                ELSE ts.intervals
        gen == ts.generation[r] + 1
    IN [handle |-> IF thrown THEN ts.handle
                   ELSE [ts.handle EXCEPT ![r] = ts.nextTimer],
        intervals |-> IF thrown THEN kept
                      ELSE kept \cup {[id |-> ts.nextTimer, task |-> r, gen |-> gen]},
        nextTimer |-> IF thrown THEN ts.nextTimer ELSE ts.nextTimer + 1,
        generation |-> [ts.generation EXCEPT ![r] = gen],
        ranGen |-> [ts.ranGen EXCEPT ![r] = gen]]

\* The repeaters and timers become ts.
SetTasks(ts) ==
    /\ handle' = ts.handle
    /\ intervals' = ts.intervals
    /\ nextTimer' = ts.nextTimer
    /\ generation' = ts.generation
    /\ ranGen' = ts.ranGen

\* A call of restart on the repeater r.
TaskRestart(r) ==
    /\ generation[r] < MaxRestarts
    /\ \E thrown \in BOOLEAN : SetTasks(RestartOn(Tasks, r, thrown))
    /\ taskLast' = TaskStep("restart", r, generation[r] + 1)
    /\ UNCHANGED taskOthers

\* A live interval timer fires: the callback it was started with runs.
TimerTick ==
    /\ \E t \in intervals :
        /\ ranGen' = [ranGen EXCEPT ![t.task] = t.gen]
        /\ taskLast' = TaskStep("tick", t.task, t.gen)
    /\ UNCHANGED <<handle, intervals, nextTimer, generation>>
    /\ UNCHANGED taskOthers

(***************************************************************************)
(* Part 4: the page renderer                                               *)
(*                                                                         *)
(* Three revisions of the renderer are in the source: Reader.open with the *)
(* FilewiseStylesEditor ("Reader.open"), Reader.open with the functions of *)
(* custom.ts ("Reader.open/custom") and the function renderBookPage.  A    *)
(* behaviour runs one of them.                                             *)
(***************************************************************************)

\* Bound: calls of the renderer in one behaviour.
MaxCalls == 2

Renderers == {"Reader.open", "Reader.open/custom", "renderBookPage"}

\* The two revisions of the customization editor.
Editors == {"FilewiseStylesEditor", "custom"}

\* The editor a renderer imports.
EditorOf(r) == IF r = "Reader.open" THEN "FilewiseStylesEditor" ELSE "custom"

\* staged() of FilewiseStylesEditor takes the method domContext.value off its
\* object and calls it without a receiver: `this` is undefined inside it and
\* reading this.inputs throws a TypeError.  stagedCustomStyles uses an arrow
\* function and returns the record.
StagedThrows(ed) == ed = "FilewiseStylesEditor"

\* The targets of a call: an anchor id, a fraction other than 0, the
\* fraction 0, or null.  renderBookPage takes no anchor id.
Targets(r) ==
    IF r = "renderBookPage" THEN {"fraction", "zero", "null"}
    ELSE {"id", "fraction", "zero", "null"}

\* Reader.open scrolls with an id or a truthy fraction; renderBookPage with
\* a fraction that is not null.
RestoresScroll(r, target) ==
    IF r = "renderBookPage" THEN target # "null"
    ELSE target \in {"id", "fraction"}

\* The repeaters restarted at the end of a call, in their order.
RestartedBy(r) ==
    IF r = "renderBookPage"
    THEN <<"refreshTocBtnLabelTask", "saveReadingProgressTask">>
    ELSE <<"saveReadingProgressTask">>

RECURSIVE RestartAll(_, _)
RestartAll(ts, rs) ==
    IF rs = <<>> THEN ts
    ELSE RestartAll(RestartOn(ts, Head(rs), FALSE), Tail(rs))

\* A stylesheet link or the body of the document fetched by the call c.
Node(kind, c) == [kind |-> kind, call |-> c]

\* target: the call's percentageOrId; pc: the await the call is suspended
\* at, or how it ended; steps: the steps done so far; links: the document
\* has stylesheet links.  The call's position in pageLoads stands for its
\* url.
PageLoad(target) ==
    [target |-> target, pc |-> "fetchXml", steps |-> <<"clear">>, links |-> FALSE]

\* A renderer that abandons the calls still under way when a new one starts.
OpenPage_CancelsEarlier ==
    /\ Len(pageLoads) < MaxCalls
    /\ \E target \in Targets(renderer) :
          pageLoads' =
              Append([c \in DOMAIN pageLoads |->
                         IF pageLoads[c].pc \in {"done", "rejected", "pending"}
                         THEN pageLoads[c]
                         ELSE [pageLoads[c] EXCEPT !.pc = "cancelled"]],
                     PageLoad(target))
    /\ rootContent' = <<>>
    /\ UNCHANGED <<renderer, taskVars, progressCall, progressLast>>
    /\ UNCHANGED readerOthers

\* Reader.open / renderBookPage up to `await fetchXml(url, true)`.
OpenPage ==
    /\ Len(pageLoads) < MaxCalls
    /\ \E target \in Targets(renderer) :
          pageLoads' = Append(pageLoads, PageLoad(target))
    /\ rootContent' = <<>>
    /\ UNCHANGED <<renderer, taskVars, progressCall, progressLast>>
    /\ UNCHANGED readerOthers

\* The steps between the fetch and the await of loadAppPrefs.
\* renderBookPage rewrites the images and the anchors first; processStyles
\* of Reader.open appends the stylesheet links to the root.
StepsAfterFetch(r) ==
    IF r = "renderBookPage" THEN <<"fetch", "rewrite">> ELSE <<"fetch">>

\* fetchXml settles for the call c.  "doc": onload with a document; "error":
\* onerror rejects; "noXml": onload throws inside the handler, the promise
\* stays pending.
FetchSettle(c) ==
    /\ c \in DOMAIN pageLoads
    /\ pageLoads[c].pc = "fetchXml"
    /\ \E outcome \in {"doc", "error", "noXml"}, links \in BOOLEAN :
        IF outcome = "doc"
        THEN /\ pageLoads' = [pageLoads EXCEPT
                    ![c].pc = "loadAppPrefs",
                    ![c].steps = @ \o StepsAfterFetch(renderer),
                    ![c].links = links]
             /\ rootContent' = IF renderer # "renderBookPage" /\ links
                               THEN Append(rootContent, Node("link", c))
                               ELSE rootContent
        ELSE /\ pageLoads' = [pageLoads EXCEPT
                    ![c].pc = IF outcome = "error" THEN "rejected" ELSE "pending"]
             /\ UNCHANGED rootContent
    /\ UNCHANGED <<renderer, taskVars, progressCall, progressLast>>
    /\ UNCHANGED readerOthers

\* styler.loadAppPrefs() settles for the call c; the next await is
\* rs.getFilewiseStyles().
PrefsSettle(c) ==
    /\ c \in DOMAIN pageLoads
    /\ pageLoads[c].pc = "loadAppPrefs"
    /\ \E rejected \in BOOLEAN :
          pageLoads' = [pageLoads EXCEPT
              ![c].pc = IF rejected THEN "rejected" ELSE "getFilewiseStyles"]
    /\ UNCHANGED <<renderer, rootContent, taskVars, progressCall, progressLast>>
    /\ UNCHANGED readerOthers

\* The end of a call that restarts the task before it inserts the content.
StepsAfterStyles_RestartFirst(r, target) ==
    <<"styles">>
    \o (IF r = "renderBookPage" THEN <<>> ELSE <<"rewrite">>)
    \o <<"restart", "insert">>
    \o (IF RestoresScroll(r, target) THEN <<"scroll">> ELSE <<>>)

\* The steps from the commit of the saved styles to the end of the call.
StepsAfterStyles(r, target) ==
    <<"styles">>
    \o (IF r = "renderBookPage" THEN <<>> ELSE <<"rewrite">>)
    \o <<"insert">>
    \o (IF RestoresScroll(r, target) THEN <<"scroll">> ELSE <<>>)
    \o <<"restart">>

\* What the call c appends to the root at its end.
Inserted(r, c, links) ==
    IF r = "renderBookPage" /\ links THEN <<Node("link", c), Node("body", c)>>
    ELSE <<Node("body", c)>>

\* rs.getFilewiseStyles() settles for the call c (a rejection is caught and
\* replaced by {}); the rest of the call runs without an await.
SavedSettle(c) ==
    /\ c \in DOMAIN pageLoads
    /\ pageLoads[c].pc = "getFilewiseStyles"
    /\ IF StagedThrows(EditorOf(renderer))
       THEN /\ pageLoads' = [pageLoads EXCEPT ![c].pc = "rejected"]
            /\ UNCHANGED <<rootContent, taskVars, progressCall>>
       ELSE /\ pageLoads' = [pageLoads EXCEPT
                   ![c].pc = "done",
                   ![c].steps = @ \o StepsAfterStyles(renderer, pageLoads[c].target)]
            /\ rootContent' = rootContent \o Inserted(renderer, c, pageLoads[c].links)
            /\ SetTasks(RestartAll(Tasks, RestartedBy(renderer)))
            /\ taskLast' = TaskStep("restart", "saveReadingProgressTask",
                                    generation["saveReadingProgressTask"] + 1)
            /\ progressCall' = c
    /\ UNCHANGED <<renderer, progressLast>>
    /\ UNCHANGED readerOthers

\* No call has restarted saveReadingProgressTask.
NoPageLoad == 0

\* shadowRoot.querySelector("body"): the first body among the root's
\* children, as the call that inserted it, or NoPageLoad for null.
RECURSIVE QueryBody(_)
QueryBody(content) ==
    IF content = <<>> THEN NoPageLoad
    ELSE IF Head(content).kind = "body" THEN Head(content).call
    ELSE QueryBody(Tail(content))

\* The body of the call c is a child of the root.
InRoot(c) == \E i \in DOMAIN rootContent : rootContent[i] = Node("body", c)

\* The page a tick reports on.  Reader.open: the url of the call that
\* restarted the task.  renderBookPage: Context.getReadingPositionUrl(),
\* set at the entry of the call made last.
ReportedPage(r) == IF r = "renderBookPage" THEN Len(pageLoads) ELSE progressCall

\* The body a tick measures.  Reader.open: querySelector("body") at the
\* time of the tick.  renderBookPage: the pageBody of the call that
\* restarted the task.
MeasuredBody(r) ==
    IF r = "renderBookPage" THEN progressCall ELSE QueryBody(rootContent)

\* The last tick of saveReadingProgressTask.  sent: rs.setReadingPosition
\* was called; page: the page reported on; finite: the position is a
\* finite number; inRoot: the root held the body of that page.
ProgressTickOf(sent, page, finite, inRoot) ==
    [op |-> "tick", sent |-> sent, page |-> page, finite |-> finite,
     inRoot |-> inRoot]

NoProgressTick ==
    [op |-> "none", sent |-> FALSE, page |-> NoPageLoad, finite |-> FALSE,
     inRoot |-> FALSE]

\* The interval timer of saveReadingProgressTask fires.  In Reader.open the
\* callback reads the rectangle of querySelector("body")!, which throws on
\* null.  In renderBookPage it reads the rectangle of its pageBody, which
\* is all zeros when the body is detached: the position is x / 0.
ProgressTick ==
    /\ \E t \in intervals :
        /\ t.task = "saveReadingProgressTask"
        /\ ranGen' = [ranGen EXCEPT ![t.task] = t.gen]
        /\ taskLast' = TaskStep("tick", t.task, t.gen)
    /\ LET body == MeasuredBody(renderer)
           page == ReportedPage(renderer)
       IN progressLast' =
              IF body = NoPageLoad
              THEN ProgressTickOf(FALSE, page, FALSE, InRoot(page))
              ELSE ProgressTickOf(TRUE, page, InRoot(body), InRoot(page))
    /\ UNCHANGED <<handle, intervals, nextTimer, generation>>
    /\ UNCHANGED <<renderer, pageLoads, rootContent, progressCall>>
    /\ UNCHANGED readerOthers

(***************************************************************************)
(* Part 5: the fractional reading position                                 *)
(*                                                                         *)
(* The numbers of the program are binary floating-point numbers: every     *)
(* arithmetic operation yields the representable number nearest to the     *)
(* exact result (ties to the even significand).  The model keeps this      *)
(* rounding and shortens the significand from 53 bits to Precision bits.   *)
(***************************************************************************)

\* Bounds.
Precision == 8       \* bits of the significand
MaxHeight == 10      \* largest height of the host's box and of the content

RECURSIVE Pow2(_)
Pow2(n) == IF n = 0 THEN 1 ELSE 2 * Pow2(n - 1)

Abs(x) == IF x < 0 THEN -x ELSE x

\* The number m * 2^e; m = 0 (and e = 0) or 2^(Precision-1) <= |m| < 2^Precision.
Finite(m, e) == [kind |-> "finite", m |-> m, e |-> e]

NaN == [kind |-> "NaN", m |-> 0, e |-> 0]

Infinity == [kind |-> "Infinity", m |-> 1, e |-> 0]

\* The finite number f as the fraction Num(f) / Den(f).
Num(f) == IF f.e >= 0 THEN f.m * Pow2(f.e) ELSE f.m

Den(f) == IF f.e >= 0 THEN 1 ELSE Pow2(-f.e)

\* Scales a / d by powers of two into [2^(Precision-1), 2^Precision).
RECURSIVE Normalize(_, _, _)
Normalize(a, d, e) ==
    IF a >= Pow2(Precision) * d THEN Normalize(a, 2 * d, e + 1)
    ELSE IF a < Pow2(Precision - 1) * d THEN Normalize(2 * a, d, e - 1)
    ELSE [a |-> a, d |-> d, e |-> e]

\* The representable number nearest to n / d (d > 0), ties to even.
RoundToNearest(n, d) ==
    IF n = 0 THEN Finite(0, 0)
    ELSE LET x == Normalize(Abs(n), d, 0)
             q == x.a \div x.d
             r == x.a % x.d
             m == IF 2 * r > x.d \/ (2 * r = x.d /\ q % 2 = 1) THEN q + 1 ELSE q
             sign == IF n < 0 THEN -1 ELSE 1
         IN IF m = Pow2(Precision)
            THEN Finite(sign * Pow2(Precision - 1), x.e + 1)
            ELSE Finite(sign * m, x.e)

\* The number literal or DOM measurement k (an integer the significand holds).
Number(k) == RoundToNearest(k, 1)

\* x - y, x * y and x / y of finite numbers.
Minus(x, y) == RoundToNearest(Num(x) * Den(y) - Num(y) * Den(x), Den(x) * Den(y))

Times(x, y) == RoundToNearest(Num(x) * Num(y), Den(x) * Den(y))

DividedBy(x, y) ==
    IF y.m = 0 THEN (IF x.m = 0 THEN NaN ELSE Infinity)
    ELSE IF Num(y) < 0
         THEN RoundToNearest(-(Num(x) * Den(y)), Den(x) * (-Num(y)))
         ELSE RoundToNearest(Num(x) * Den(y), Den(x) * Num(y))

\* A DOMRect, of which the formulas read the top and the height.
DOMRect(top, height) == [top |-> Number(top), height |-> Number(height)]

\* The anchor point at a fourth of the box instead of a fifth.
AnchorPoint_Fourth(box) == DividedBy(box.height, Number(4))

\* box.height / 5
AnchorPoint(box) == DividedBy(box.height, Number(5))

\* getCurrentPositionPx(box, content)
GetCurrentPositionPx(box, content) == Minus(AnchorPoint(box), content.top)

\* getCurrentPosition(box, content)
GetCurrentPosition(box, content) ==
    DividedBy(GetCurrentPositionPx(box, content), content.height)

\* getCurrentPositionInverse(box, content, percentage), for a finite
\* percentage.
GetCurrentPositionInverse(box, content, percentage) ==
    LET top == Times(percentage, content.height)
    IN Minus(top, DividedBy(box.height, Number(5)))

\* The largest scrollTop of the host: the content's overflow.
MaxScrollTop(boxHeight, contentHeight) ==
    IF contentHeight > boxHeight THEN contentHeight - boxHeight ELSE 0

\* The geometries: the host's box with its top at the viewport's top and
\* the content scrolled by scrollTop.
Geometries ==
    {g \in [boxHeight : 0..MaxHeight, contentHeight : 0..MaxHeight,
            scrollTop : 0..MaxHeight] :
        g.scrollTop <= MaxScrollTop(g.boxHeight, g.contentHeight)}

Box(g) == DOMRect(0, g.boxHeight)

Content(g) == DOMRect(-g.scrollTop, g.contentHeight)

NoGeometry == [boxHeight |-> 0, contentHeight |-> 0, scrollTop |-> 0]

\* The callback of saveReadingProgressTask: calculatePercentage and
\* rs.setReadingPosition(url, percentage).
PublishPosition ==
    /\ posStep = "measured"
    /\ published' = <<GetCurrentPosition(Box(geometry), Content(geometry))>>
    /\ posStep' = "published"
    /\ UNCHANGED <<geometry, restored>>
    /\ UNCHANGED posOthers

\* scrollToPercentage(percentage) with the fraction published before, on the
\* same geometry: the top handed to host.scroll.
RestorePosition ==
    /\ posStep = "published"
    /\ published[1].kind = "finite"
    /\ restored' = <<GetCurrentPositionInverse(Box(geometry), Content(geometry),
                                               published[1])>>
    /\ posStep' = "restored"
    /\ UNCHANGED <<geometry, published>>
    /\ UNCHANGED posOthers

(***************************************************************************)
(* Part 6: the per-book styles: the customization editor and the styler    *)
(*                                                                         *)
(* Two revisions of the editor (the class FilewiseStylesEditor and the     *)
(* functions of custom.ts) and two of the styler (the class Styler with    *)
(* the layers app / per-book / page-native, and the earlier Styler with    *)
(* the layers in-page / custom) are in the source.  A behaviour runs one   *)
(* of each.                                                                *)
(***************************************************************************)

\* FilewiseStylesKey
Keys == {"base-font-size", "line-height-scale", "inline-margin"}

Stylers == {"Styler", "Styler/custom"}

\* What a property of the parsed saved record can be besides a number:
\* null (JSON.stringify writes NaN as null) and undefined (the key is absent).
Null == [kind |-> "null", m |-> 0, e |-> 0]

Undefined == [kind |-> "undefined", m |-> 0, e |-> 0]

\* if (value): a number other than 0 and NaN.
Truthy(v) == v.kind = "Infinity" \/ (v.kind = "finite" /\ v.m # 0)

\* x < y of two numbers; false when one of them is NaN.
Less(x, y) ==
    /\ x.kind = "finite" /\ y.kind = "finite"
    /\ Num(x) * Den(y) < Num(y) * Den(x)

\* clamp(value, min, max)
Clamp(value, min, max) ==
    IF Less(value, min) THEN min
    ELSE IF Less(max, value) THEN max
    ELSE value

\* The text of a number: "NaN", or its digits as the integer units of
\* 10^(-digits).
Text(nan, units, digits) == [nan |-> nan, units |-> units, digits |-> digits]

RECURSIVE Pow10(_)
Pow10(n) == IF n = 0 THEN 1 ELSE 10 * Pow10(n - 1)

\* x.toFixed(digits) of a number >= 0 or NaN: rounded to the nearest
\* multiple of 10^(-digits), halves upwards.
ToFixed(x, digits) ==
    IF x.kind # "finite" THEN Text(TRUE, 0, digits)
    ELSE Text(FALSE, (2 * Num(x) * Pow10(digits) + Den(x)) \div (2 * Den(x)), digits)

\* `${x}` of an integer >= 0 or NaN.
TemplateText(x) ==
    IF x.kind # "finite" THEN Text(TRUE, 0, 0) ELSE Text(FALSE, Num(x) \div Den(x), 0)

\* The largest inline margin the styler lets through.
MaxInlineMargin(s) == IF s = "Styler" THEN 45 ELSE 500

\* The values #setFilewiseStyleCss / setCustomStylesheet format for the
\* record styles: the three of the :host rule and the host's padding.
HostStyle(s, styles) ==
    LET baseFontSize == Clamp(styles["base-font-size"], Number(8), Number(72))
        lineHeightScale ==
            DividedBy(Clamp(styles["line-height-scale"], Number(2), Number(60)),
                      Number(10))
        inlineMargin ==
            Clamp(styles["inline-margin"], Number(0), Number(MaxInlineMargin(s)))
    IN [fontSize |-> ToFixed(baseFontSize, 2),
        lineHeightScale |-> ToFixed(lineHeightScale, 3),
        lineHeight |-> ToFixed(Times(lineHeightScale, DividedBy(Number(5), Number(4))), 2),
        paddingInline |->
            IF s = "Styler" THEN TemplateText(inlineMargin)
            ELSE ToFixed(DividedBy(inlineMargin, Number(2)), 2)]

\* The numbers the user puts into a control; valueAsNumber is NaN for an
\* empty control.
InputValues ==
    [key \in Keys |->
        CASE key = "base-font-size" -> {NaN, Number(4), Number(16)}
          [] key = "line-height-scale" -> {Number(1), Number(12)}
          [] key = "inline-margin" -> {Number(0), Number(5), Number(600)}]

\* The records the controls can stage.
StagedRecords == {r \in [Keys -> UNION {InputValues[k] : k \in Keys}] :
                     \A k \in Keys : r[k] \in InputValues[k]}

\* HostStyle of every styler and record, tabulated.
HostStyles ==
    {[styler |-> s, styles |-> styles, host |-> HostStyle(s, styles)] :
        s \in Stylers, styles \in StagedRecords}

\* The content of a stylesheet: empty, the text of a page's <style>
\* elements, the application's rules or the :host rule of a record.
EmptySheet == [kind |-> "empty", css |-> "", host |-> <<>>]

PageSheet(css) == [kind |-> "page", css |-> css, host |-> <<>>]

AppSheet(css) == [kind |-> "app", css |-> css, host |-> <<>>]

HostSheet(h) ==
    [kind |-> "host", css |-> "",
     host |-> <<[fontSize |-> h.fontSize, lineHeightScale |-> h.lineHeightScale,
                 lineHeight |-> h.lineHeight]>>]

\* The texts of the <style> elements of the pages.
PageCss == {"", "p { margin: 0 }"}

\* style.paddingInline = text: a text that is no length or percentage
\* ("NaN%") is ignored.
AssignPadding(old, text) == IF text.nan THEN old ELSE text

\* The layers after the styler s has been handed the record styles
\* (set filewiseStyles / setCustomStylesheet).
CommitLayers(s, ls, styles) ==
    LET h == (CHOOSE t \in HostStyles : t.styler = s /\ t.styles = styles).host
    IN [ls EXCEPT !.perBook = HostSheet(h),
                  !.padding = AssignPadding(ls.padding, h.paddingInline)]

\* setStyleElemsCss(css) of Styler replaces #styleElemsCss;
\* setInPageStylesheet(css) of the earlier Styler replaces #customStylesheet.
SetPageCss(s, ls, css) ==
    IF s = "Styler" THEN [ls EXCEPT !.pageNative = PageSheet(css)]
    ELSE [ls EXCEPT !.perBook = PageSheet(css)]

\* The layers of a new Styler, and the host without inline padding.
NewLayers ==
    [app |-> EmptySheet, perBook |-> EmptySheet, pageNative |-> EmptySheet,
     padding |-> Text(FALSE, 0, 0)]

\* The values the controls of the page start with.
DefaultValues ==
    {d \in [Keys -> {Number(0), Number(5), Number(12), Number(16)}] :
        /\ d["base-font-size"] = Number(16)
        /\ d["line-height-scale"] = Number(12)
        /\ d["inline-margin"] \in {Number(0), Number(5)}}

\* The record JSON.parse reads back from what JSON.stringify wrote for the
\* record styles: NaN is written as null.
Json(styles) ==
    [k \in Keys |-> IF styles[k].kind = "finite" THEN styles[k] ELSE Null]

\* The saved record of a book: rec is what getFilewiseStyles returns (a key
\* the record lacks reads as undefined), staged is the record handed to
\* setFilewiseStyles when the file was written by the change handler.
SavedFile(rec, staged) == [rec |-> rec, staged |-> staged]

\* No saved record: getFilewiseStyles() || {}
NoSavedStyles == [k \in Keys |-> Undefined]

\* The files of books saved earlier.
SavedFiles ==
    {SavedFile(NoSavedStyles, <<>>),
     SavedFile([NoSavedStyles EXCEPT !["base-font-size"] = Number(4)], <<>>),
     SavedFile([k \in Keys |-> IF k = "inline-margin" THEN Number(0)
                               ELSE IF k = "line-height-scale" THEN Number(1)
                               ELSE Number(16)], <<>>)}

\* staged(): the numbers of the three controls.
Staged(ins) == [k \in Keys |-> ins[k]]

\* The loop of commitFromFile / commitCustomStylesFromSaved: if (value)
\* setValue(key, value).
SetValuesFromFile(ins, saved) ==
    [k \in Keys |-> IF Truthy(saved[k]) THEN saved[k] ELSE ins[k]]

\* The application's rules loadAppPrefs builds for the preference
\* font.prefer (none or "serif").
AppCss(fontPrefer) == AppSheet(fontPrefer)

\* How the reads of loadAppPrefs end when there is a store.
PrefsOutcomes == {"rejected", "none", "serif"}

\* What the last step on the styles was: op is the step, rejected whether
\* it threw or rejected, fresh whether it found the controls at their
\* initial values.
StyleOp(op, rejected, fresh) == [op |-> op, rejected |-> rejected, fresh |-> fresh]

\* processStyles up to its first await: the page's CSS is handed to the
\* styler; the earlier page renderer, whose styler has no application
\* layer, goes on to read the saved record.
ProcessStyles(css) ==
    /\ stylesCall.pc = "idle"
    /\ layers' = SetPageCss(styler, layers, css)
    /\ stylesCall' = [pc |-> IF styler = "Styler" THEN "loadAppPrefs"
                             ELSE "getFilewiseStyles",
                      css |-> <<css>>, loaded |-> stylesCall.loaded]
    /\ styleLast' = StyleOp("setStyleElemsCss", FALSE, inputs = defaults)
    /\ UNCHANGED <<editor, styler, prefsStore, defaults, inputs, handleChange,
                   filewiseStyles, savedStyles>>
    /\ UNCHANGED styleOthers

\* await this.styler.loadAppPrefs(): without a store the layer is left
\* alone; a read the store rejects rejects loadAppPrefs, and processStyles
\* with it, before the layer is replaced.
LoadAppPrefs(prefs) ==
    /\ stylesCall.pc = "loadAppPrefs"
    /\ IF ~prefsStore
       THEN /\ stylesCall' = [stylesCall EXCEPT !.pc = "getFilewiseStyles"]
            /\ styleLast' = StyleOp("loadAppPrefs", FALSE, inputs = defaults)
            /\ UNCHANGED layers
       ELSE IF prefs = "rejected"
       THEN /\ stylesCall' = [stylesCall EXCEPT !.pc = "idle"]
            /\ styleLast' = StyleOp("loadAppPrefs", TRUE, inputs = defaults)
            /\ UNCHANGED layers
       ELSE /\ stylesCall' = [stylesCall EXCEPT !.pc = "getFilewiseStyles"]
            /\ styleLast' = StyleOp("loadAppPrefs", FALSE, inputs = defaults)
            /\ layers' = [layers EXCEPT !.app = AppCss(prefs)]
    /\ UNCHANGED <<editor, styler, prefsStore, defaults, inputs, handleChange,
                   filewiseStyles, savedStyles>>
    /\ UNCHANGED styleOthers

\* The saved record of the open book (file = savedStyles) or of the book
\* just opened arrives, or its read fails: commitFromFile puts it into
\* the controls and commits what is staged, then the change handler is set.
CommitFromFile(file, readFails) ==
    LET saved == IF readFails THEN NoSavedStyles ELSE file.rec
        ins == SetValuesFromFile(inputs, saved)
    IN /\ stylesCall.pc = "getFilewiseStyles"
       /\ stylesCall' = [stylesCall EXCEPT !.pc = "idle", !.loaded = TRUE]
       /\ savedStyles' = file
       /\ inputs' = ins
       /\ IF StagedThrows(editor)
          THEN /\ styleLast' = StyleOp("commitFromFile", TRUE, inputs = defaults)
               /\ UNCHANGED <<handleChange, filewiseStyles, layers>>
          ELSE /\ filewiseStyles' = <<Staged(ins)>>
               /\ layers' = CommitLayers(styler, layers, Staged(ins))
               /\ handleChange' = TRUE
               /\ styleLast' = StyleOp(IF readFails THEN "commitFromFile/noRecord"
                                       ELSE "commitFromFile", FALSE, inputs = defaults)
       /\ UNCHANGED <<editor, styler, prefsStore, defaults>>
       /\ UNCHANGED styleOthers

\* The user sets the control key to v and the control fires its change
\* event: the handler, once set, commits and saves what is staged.
ChangeEvent(key, v) ==
    LET ins == [inputs EXCEPT ![key] = v]
    IN /\ inputs' = ins
       /\ IF ~handleChange
          THEN /\ styleLast' = StyleOp("change", FALSE, FALSE)
               /\ UNCHANGED <<filewiseStyles, layers, savedStyles>>
          ELSE IF StagedThrows(editor)
          THEN /\ styleLast' = StyleOp("change", TRUE, FALSE)
               /\ UNCHANGED <<filewiseStyles, layers, savedStyles>>
          ELSE /\ filewiseStyles' = <<Staged(ins)>>
               /\ layers' = CommitLayers(styler, layers, Staged(ins))
               /\ savedStyles' = SavedFile(Json(Staged(ins)), <<Staged(ins)>>)
               /\ styleLast' = StyleOp("change", FALSE, FALSE)
       /\ UNCHANGED <<editor, styler, prefsStore, defaults, handleChange, stylesCall>>
       /\ UNCHANGED styleOthers

\* The application is started again: the page's controls hold their
\* initial values, without a handler, and the styler is new.
ReloadApp ==
    /\ styleLast.op # "reload"
    /\ inputs' = defaults
    /\ handleChange' = FALSE
    /\ filewiseStyles' = <<>>
    /\ layers' = NewLayers
    /\ stylesCall' = [pc |-> "idle", css |-> <<>>, loaded |-> FALSE]
    /\ styleLast' = StyleOp("reload", FALSE, TRUE)
    /\ UNCHANGED <<editor, styler, prefsStore, defaults, savedStyles>>
    /\ UNCHANGED styleOthers

(***************************************************************************)
(* Part 7: the custom property of a font name                              *)
(*                                                                         *)
(* A name is the sequence of its UTF-16 code units; a property name is the *)
(* prefix followed by one-character strings.                               *)
(***************************************************************************)

MaxNameLen == 2      \* code units of a font name

\* The code units of the names: space, A, a, e with acute, the CJK
\* ideograph U+4E2D, the lone high surrogate U+D800 and U+FFFD.
CodeUnits == {32, 65, 97, 233, 20013, 55296, 65533}

FontNames == UNION {[1..n -> CodeUnits] : n \in 0..MaxNameLen}

\* c.toLowerCase() of a code unit of Basic Latin or Latin-1.
LowerCaseOf(c) ==
    IF c >= 65 /\ c <= 90 THEN c + 32
    ELSE IF c >= 192 /\ c <= 222 /\ c # 215 THEN c + 32
    ELSE c

\* name.toLowerCase()
ToLowerCase(name) == [i \in DOMAIN name |-> LowerCaseOf(name[i])]

\* A code unit that is half of a surrogate pair; the names hold no low
\* surrogate, so such a unit stands alone.
IsSurrogate(c) == c >= 55296 /\ c <= 57343

\* An encoder that writes "?" for what is not ASCII.
Utf8Bytes_Ascii(c) == IF c < 128 THEN <<c>> ELSE <<63>>

\* The bytes TextEncoder.encode writes for a code unit of the Basic
\* Multilingual Plane: a lone surrogate is written as U+FFFD.
Utf8Bytes(c) ==
    LET cp == IF IsSurrogate(c) THEN 65533 ELSE c
    IN IF cp < 128 THEN <<cp>>
       ELSE IF cp < 2048 THEN <<192 + (cp \div 64), 128 + (cp % 64)>>
       ELSE <<224 + (cp \div 4096), 128 + ((cp \div 64) % 64), 128 + (cp % 64)>>

HexDigits == <<"0", "1", "2", "3", "4", "5", "6", "7",
               "8", "9", "a", "b", "c", "d", "e", "f">>

\* b.toString(16).padStart(2, "0") of a byte.
HexOfByte(b) == <<HexDigits[(b \div 16) + 1], HexDigits[(b % 16) + 1]>>

\* The forEach over the encoded bytes, appending to property.
RECURSIVE AppendHex(_, _)
AppendHex(property, bytes) ==
    IF bytes = <<>> THEN property
    ELSE AppendHex(property \o HexOfByte(Head(bytes)), Tail(bytes))

\* The bytes of a whole name.
RECURSIVE Encode(_)
Encode(name) ==
    IF name = <<>> THEN <<>> ELSE Utf8Bytes(Head(name)) \o Encode(Tail(name))

\* #customPropertyForFont(name)
CustomPropertyForFont(name) == AppendHex(<<"--og-font-">>, Encode(ToLowerCase(name)))

\* The property names of the two font names are computed.
ApplyCustomPropertyForFont ==
    /\ fontProps = <<>>
    /\ fontProps' = <<CustomPropertyForFont(fontNames[1]),
                      CustomPropertyForFont(fontNames[2])>>
    /\ UNCHANGED fontNames
    /\ UNCHANGED fontOthers

(***************************************************************************)
(* Part 8: moving in the spine                                             *)
(*                                                                         *)
(* ReadScreen.moveInSpine / jumpTo, and the earlier functions moveInSpine  *)
(* / navigateTo / renderBookPage that keep the position in Context.        *)
(***************************************************************************)

SpineLen == 5        \* spine items of the opened book

Navigators == {"ReadScreen", "lib"}

\* The content documents: the spine's items in order, and one more that
\* the spine does not list.
Pages == 1..(SpineLen + 1)

Url(page) == [kind |-> "url", page |-> page]

UndefinedUrl == [kind |-> "undefined", page |-> 0]

\* An index: a number, undefined, or NaN (undefined + 1).
Index(n) == [kind |-> "number", n |-> n]

UndefinedIndex == [kind |-> "undefined", n |-> 0]

NaNIndex == [kind |-> "NaN", n |-> 0]

\* Context.getSpineIndex().get(url.pathname) / pubHelper.indexInSpine(url)
IndexInSpine(url) ==
    IF url.page <= SpineLen THEN Index(url.page - 1) ELSE UndefinedIndex

\* spine[index]
SpineAt(index) ==
    IF index.kind = "number" /\ index.n >= 0 /\ index.n < SpineLen
    THEN Url(index.n + 1)
    ELSE UndefinedUrl

\* index += forward ? +1 : -1
Moved(index, forward) ==
    IF index.kind = "number"
    THEN Index(index.n + (IF forward THEN 1 ELSE -1))
    ELSE NaNIndex

\* index < 0 || index >= spine.length
PastSpine(index) ==
    index.kind = "number" /\ (index.n < 0 \/ index.n >= SpineLen)

Position(url, index) == [url |-> url, index |-> index]

\* The position renderBookPage(url, percentage, indexInSpine) records.
PositionOfRender(url, indexInSpine) ==
    IF indexInSpine.kind # "undefined"
    THEN Position(SpineAt(indexInSpine), indexInSpine)
    ELSE Position(url, IndexInSpine(url))

Navigation(op, forward, from, alert, handed) ==
    [op |-> op, forward |-> forward, from |-> from, alert |-> alert,
     handed |-> handed]

\* jumpTo(url) / navigateTo(url): the page of a link or a TOC entry.
JumpTo(page) ==
    /\ readingPosition' = Position(Url(page), IndexInSpine(Url(page)))
    /\ spineLast' = Navigation("jumpTo", FALSE, readingPosition, FALSE,
                               <<Url(page)>>)
    /\ UNCHANGED navigator
    /\ UNCHANGED spineOthers

\* moveInSpine(forward)
MoveInSpine(forward) ==
    LET index == Moved(readingPosition.index, forward)
        done(alert, handed) ==
            Navigation("moveInSpine", forward, readingPosition, alert, handed)
    IN /\ IF navigator = "ReadScreen" /\ readingPosition.index.kind = "undefined"
          THEN /\ spineLast' = done(FALSE, <<>>)
               /\ UNCHANGED readingPosition
          ELSE IF PastSpine(index)
          THEN /\ spineLast' = done(TRUE, <<>>)
               /\ UNCHANGED readingPosition
          ELSE /\ spineLast' = done(FALSE, <<SpineAt(index)>>)
               /\ readingPosition' =
                     IF navigator = "ReadScreen"
                     THEN Position(SpineAt(index), IndexInSpine(SpineAt(index)))
                     ELSE PositionOfRender(SpineAt(index), index)
       /\ UNCHANGED navigator
       /\ UNCHANGED spineOthers

(***************************************************************************)
(* Part 9: Styler.load, the linked stylesheets of a page                   *)
(***************************************************************************)

NumSheets == 3       \* distinct stylesheet paths of the book

SheetPaths == 1..NumSheets

\* The paths in increasing order, as a sequence.
RECURSIVE InOrderOf(_)
InOrderOf(paths) ==
    IF paths = {} THEN <<>>
    ELSE LET least == CHOOSE x \in paths : \A y \in paths : x <= y
         IN <<least>> \o InOrderOf(paths \ {least})

\* load(paths): the linked sheets adopted before are dropped; a path whose
\* stylesheet was kept resolves at once and is adopted, for every other
\* path rs.getResource is called.
StylerLoad(paths) ==
    /\ loadPromise # "pending"
    /\ sheetLoad' = [path \in SheetPaths |->
                        IF path \notin paths THEN "none"
                        ELSE IF path \in linkedCssResources THEN "kept"
                        ELSE "getResource"]
    /\ adopted' = InOrderOf(paths \cap linkedCssResources)
    /\ loadPromise' = "pending"
    /\ UNCHANGED linkedCssResources
    /\ UNCHANGED loadOthers

\* rs.getResource(path) settles.  "content": the stylesheet is built, kept
\* and adopted.  "empty": the path's promise is rejected.  "rejected": the
\* then-callback does not run and nothing settles the path's promise.
GetResourceSettle(path, outcome) ==
    /\ sheetLoad[path] = "getResource"
    /\ sheetLoad' = [sheetLoad EXCEPT ![path] =
                        CASE outcome = "content" -> "adopted"
                          [] outcome = "empty" -> "notFound"
                          [] outcome = "rejected" -> "unsettled"]
    /\ IF outcome = "content"
       THEN /\ linkedCssResources' = linkedCssResources \cup {path}
            /\ adopted' = Append(adopted, path)
       ELSE UNCHANGED <<linkedCssResources, adopted>>
    /\ UNCHANGED loadPromise
    /\ UNCHANGED loadOthers

\* Promise.allSettled(promises): every path's promise is fulfilled or
\* rejected; the failures are logged and load's promise resolves.
AllSettled ==
    /\ loadPromise = "pending"
    /\ \A path \in SheetPaths :
          sheetLoad[path] \in {"none", "kept", "adopted", "notFound"}
    /\ loadPromise' = "resolved"
    /\ UNCHANGED <<linkedCssResources, sheetLoad, adopted>>
    /\ UNCHANGED loadOthers

(***************************************************************************)
(* Part 10: the close event of the nav modal                               *)
(*                                                                         *)
(* The entries of the TOC are the buttons of a form of the <dialog>: the   *)
(* button pressed closes the dialog with its value as returnValue.  The    *)
(* other ways of closing call close() without a value, which leaves        *)
(* returnValue as it is.                                                   *)
(***************************************************************************)

MaxNavigations == 6  \* calls of the navigate callback in one behaviour

\* The values of the TOC's buttons: "" for an entry without a target.
TocValues == {"", "ch1.xhtml", "ch2.xhtml", "ch2.xhtml#s1"}

TocEvent(cause, navigated) == [cause |-> cause, navigated |-> navigated]

\* inner.onclose as set by setOnClose with the function of setupTocGoTo:
\* if (value) navigate(URL.parse(value)).  The result is what the close
\* by cause leaves in navigations and tocLast.
OnClose(cause, value) ==
    IF value # ""
    THEN /\ navigations' = navigations + 1
         /\ tocLast' = TocEvent(cause, <<value>>)
    ELSE /\ UNCHANGED navigations
         /\ tocLast' = TocEvent(cause, <<>>)

\* NavModal.show() on the closed dialog.
TocShow ==
    /\ ~tocOpen
    /\ tocOpen' = TRUE
    /\ tocLast' = TocEvent("show", <<>>)
    /\ UNCHANGED <<returnValue, navigations>>
    /\ UNCHANGED tocOthers

\* The user presses the entry with the given value.
ChooseEntry(value) ==
    /\ tocOpen
    /\ navigations < MaxNavigations
    /\ tocOpen' = FALSE
    /\ returnValue' = value
    /\ OnClose("choice", value)
    /\ UNCHANGED tocOthers

\* A click in the backdrop ("backdrop"), the Escape key ("escape") or
\* BaseModal.close() called by the coordinator ("coordinator"): the dialog
\* closes, no value is given.
CloseWithoutChoice(cause) ==
    /\ tocOpen
    /\ navigations < MaxNavigations
    /\ tocOpen' = FALSE
    /\ UNCHANGED returnValue
    /\ OnClose(cause, returnValue)
    /\ UNCHANGED tocOthers

(***************************************************************************)
(* Part 11: Context, the opened book and the values cached from it         *)
(***************************************************************************)

\* The file paths of the books, as sequences of characters.
FilePaths == {<<"d", "/", "a">>, <<"d", "\\", "b">>, <<"c">>}

\* The pathnames of the spine items.
SpinePaths == {"p1", "p2"}

\* The books: title and lang are the values of the metadata items of those
\* properties, "" also standing for an item that is absent.
Books ==
    [filePath : FilePaths, title : {"", "A", "B"}, lang : {"", "en"},
     pubSpine : {<<"p1", "p2">>, <<"p2", "p1">>, <<"p1">>}]

\* String.lastIndexOf(ch), counted from 1: 0 when ch does not occur.
LastIndexOf(path, ch) ==
    LET at == {i \in DOMAIN path : path[i] = ch}
    IN IF at = {} THEN 0 ELSE CHOOSE i \in at : \A j \in at : j <= i

\* path.slice((i > j ? i : j) + 1) with i, j the last "/" and the last "\".
FileName(path) ==
    LET i == LastIndexOf(path, "/")
        j == LastIndexOf(path, "\\")
    IN SubSeq(path, (IF i > j THEN i ELSE j) + 1, Len(path))

\* The title getEpubTitle computes from the book b: a string, as a sequence
\* of characters.
TitleOf(b) == IF b.title # "" THEN <<b.title>> ELSE FileName(b.filePath)

\* The language getEpubLang computes from the book b.
LangOf(b) == b.lang

\* Map.get(pathname) that finds nothing.
UndefinedSpineIndex == 0

\* The map getSpineIndex builds from the book b: the later of two equal
\* pathnames wins; positions are counted from 1 here.
SpineIndexOf(b) ==
    [path \in SpinePaths |->
        LastIndexOf(b.pubSpine, path)]

ContextCall(op, thrown, value) == [op |-> op, thrown |-> thrown, value |-> value]

\* Context.setOpenedEpub(aboutPub).
SetOpenedEpub(b) ==
    /\ openedEpub' = <<b>>
    /\ epubLang' = <<>>
    /\ spineIndex' = <<>>
    /\ contextLast' = ContextCall("setOpenedEpub", FALSE, <<>>)
    /\ UNCHANGED epubTitle
    /\ UNCHANGED contextOthers

\* Context.getEpubLang(): getOpenedEpub throws while no book is opened and
\* the value is not cached.
GetEpubLang ==
    /\ IF epubLang # <<>>
       THEN /\ contextLast' = ContextCall("getEpubLang", FALSE, epubLang[1])
            /\ UNCHANGED epubLang
       ELSE IF openedEpub = <<>>
       THEN /\ contextLast' = ContextCall("getEpubLang", TRUE, <<>>)
            /\ UNCHANGED epubLang
       ELSE /\ epubLang' = <<LangOf(openedEpub[1])>>
            /\ contextLast' = ContextCall("getEpubLang", FALSE, LangOf(openedEpub[1]))
    /\ UNCHANGED <<openedEpub, epubTitle, spineIndex>>
    /\ UNCHANGED contextOthers

\* Context.getEpubTitle().
GetEpubTitle ==
    /\ IF epubTitle # <<>>
       THEN /\ contextLast' = ContextCall("getEpubTitle", FALSE, epubTitle[1])
            /\ UNCHANGED epubTitle
       ELSE IF openedEpub = <<>>
       THEN /\ contextLast' = ContextCall("getEpubTitle", TRUE, <<>>)
            /\ UNCHANGED epubTitle
       ELSE /\ epubTitle' = <<TitleOf(openedEpub[1])>>
            /\ contextLast' = ContextCall("getEpubTitle", FALSE, TitleOf(openedEpub[1]))
    /\ UNCHANGED <<openedEpub, epubLang, spineIndex>>
    /\ UNCHANGED contextOthers

\* Context.setReadingPositionUrl(url): the index it takes from
\* getSpineIndex() for the pathname of url.
SetReadingPositionUrl(path) ==
    /\ IF spineIndex # <<>>
       THEN /\ contextLast' =
                   ContextCall("setReadingPositionUrl", FALSE, <<path, spineIndex[1][path]>>)
            /\ UNCHANGED spineIndex
       ELSE IF openedEpub = <<>>
       THEN /\ contextLast' = ContextCall("setReadingPositionUrl", TRUE, <<>>)
            /\ UNCHANGED spineIndex
       ELSE /\ spineIndex' = <<SpineIndexOf(openedEpub[1])>>
            /\ contextLast' =
                   ContextCall("setReadingPositionUrl", FALSE,
                               <<path, SpineIndexOf(openedEpub[1])[path]>>)
    /\ UNCHANGED <<openedEpub, epubLang, epubTitle>>
    /\ UNCHANGED contextOthers

(***************************************************************************)
(* Specifications                                                          *)
(***************************************************************************)

TaskIdle ==
    /\ handle = [r \in Repeaters |-> NullHandle]
    /\ intervals = {}
    /\ nextTimer = 1
    /\ generation = [r \in Repeaters |-> 0]
    /\ ranGen = [r \in Repeaters |-> 0]
    /\ taskLast = TaskStep("none", "saveReadingProgressTask", 0)

ReaderIdle ==
    /\ renderer = "Reader.open"
    /\ pageLoads = <<>>
    /\ rootContent = <<>>
    /\ progressCall = NoPageLoad
    /\ progressLast = NoProgressTick

PosIdle ==
    /\ geometry = NoGeometry
    /\ posStep = "measured"
    /\ published = <<>>
    /\ restored = <<>>

StyleIdle ==
    /\ editor = "custom"
    /\ styler = "Styler"
    /\ prefsStore = FALSE
    /\ stylesCall = [pc |-> "idle", css |-> <<>>, loaded |-> FALSE]
    /\ defaults = [k \in Keys |-> NaN]
    /\ inputs = [k \in Keys |-> NaN]
    /\ handleChange = FALSE
    /\ filewiseStyles = <<>>
    /\ layers = NewLayers
    /\ savedStyles = SavedFile(NoSavedStyles, <<>>)
    /\ styleLast = StyleOp("none", FALSE, TRUE)

FontIdle ==
    /\ fontNames = <<<<>>, <<>>>>
    /\ fontProps = <<>>

SpineIdle ==
    /\ navigator = "ReadScreen"
    /\ readingPosition = Position(Url(1), Index(0))
    /\ spineLast = Navigation("none", FALSE, Position(Url(1), Index(0)), FALSE, <<>>)

LoadIdle ==
    /\ linkedCssResources = {}
    /\ sheetLoad = [path \in SheetPaths |-> "none"]
    /\ adopted = <<>>
    /\ loadPromise = "none"

TocIdle ==
    /\ tocOpen = FALSE
    /\ returnValue = ""
    /\ navigations = 0
    /\ tocLast = TocEvent("none", <<>>)

ContextIdle ==
    /\ openedEpub = <<>>
    /\ epubLang = <<>>
    /\ epubTitle = <<>>
    /\ spineIndex = <<>>
    /\ contextLast = ContextCall("none", FALSE, <<>>)

MoreIdle == FontIdle /\ SpineIdle /\ LoadIdle /\ TocIdle /\ ContextIdle

LaterIdle == TaskIdle /\ ReaderIdle /\ PosIdle /\ StyleIdle /\ MoreIdle


NoCall ==
    [op |-> "none", arg |-> "nav", ret |-> "none", closeRet |-> NoCloseCalls,
     preOpen |-> [m \in Modals |-> FALSE], preLocked |-> [m \in Modals |-> FALSE]]

ModalsIdle ==
    /\ modals = <<>>
    /\ open = [m \in Modals |-> FALSE]
    /\ locked = [m \in Modals |-> FALSE]
    /\ navInit = "none"
    /\ tocBtnDisabled = FALSE
    /\ menuListening = {}
    /\ last = NoCall

TrackerIdle ==
    /\ tracker = "ReadScreen"
    /\ entries = <<>>
    /\ marks = <<>>
    /\ closest = NullBtn
    /\ tocLabel = NullBtn
    /\ pageUrl = 1
    /\ loads = 0
    /\ taskLive = FALSE
    /\ navPoints = <<>>
    /\ lastRun = NoRun

FnIdle ==
    /\ fnIn = [entries |-> <<>>, currentPath |-> 1, offset |-> 0,
               layout |-> [id \in AnchorIds |-> NoElement]]
    /\ fnOut = NotCalled

\* The modals of a reading session.
Init == ModalsIdle /\ TrackerIdle /\ FnIdle /\ LaterIdle

Next ==
    \/ TocBtnClick
    \/ HandleKeyEvent
    \/ MenuEvent
    \/ PreviewShow
    \/ FontsShow
    \/ InitDetailsAndTocModals
    \/ NavInitSettle
    \/ \E m \in Modals : BackdropClick(m)
    \/ \E m \in Modals : InnerClick(m)

Spec == Init /\ [][Next]_vars

\* The state space BaseModal documents for a modal: unlocked-closed,
\* unlocked-open, locked-closed and locked-open.  The contract of
\* ModalCoordinator.show and of the backdrop listener is checked from every
\* combination of these states in which at most one dialog is open.
Registries ==
    {s \in UNION {[1..n -> Modals] : n \in 0..Cardinality(Modals)} :
        \A i, j \in DOMAIN s : s[i] = s[j] => i = j}

InitContract ==
    /\ modals \in Registries
    /\ open \in [Modals -> BOOLEAN]
    /\ locked \in [Modals -> BOOLEAN]
    /\ \A m \in Modals : (open[m] \/ locked[m]) => m \in Range(modals)
    /\ Cardinality({m \in Modals : open[m]}) <= 1
    /\ navInit \in {"none", "done"}
    /\ tocBtnDisabled = FALSE
    /\ menuListening = IF navInit = "done" THEN {"menu/f_d", "menu/f_n"} ELSE {}
    /\ last = NoCall
    /\ TrackerIdle
    /\ FnIdle
    /\ LaterIdle

SpecContract == InitContract /\ [][Next]_vars

\* The tracker of a book whose TOC has been built: the TOC's buttons are
\* drawn, none is marked, and the page shown is any page.
InitNav ==
    /\ ModalsIdle
    /\ FnIdle
    /\ LaterIdle
    /\ tracker \in {"ReadScreen", "NavModal"}
    /\ entries \in TocLists(MaxTocEntries)
    /\ marks = [i \in 1..Len(entries) |-> Unmarked]
    /\ closest = NullBtn
    /\ tocLabel = NullBtn
    /\ pageUrl \in Paths
    /\ loads = 0
    /\ taskLive = FALSE
    /\ navPoints = <<>>
    /\ lastRun = NoRun

NextNav ==
    \/ ReadPageStart
    \/ ReadPageDone
    \/ TocBtnLabelTick
    \/ RestartClosestNavPointTask
    \/ ClosestNavPointTick
    \/ StopClosestNavPointTask

SpecNav == InitNav /\ [][NextNav]_vars

\* Calls of mostRecentNavPoint on every list of buttons, path, offset and
\* layout within the bounds.
InitFn ==
    /\ ModalsIdle
    /\ TrackerIdle
    /\ LaterIdle
    /\ fnIn \in [entries : ButtonLists(MaxEntries), currentPath : Paths,
                 offset : ViewOffsets, layout : Layouts]
    /\ fnOut = NotCalled

NextFn == ApplyMostRecentNavPoint

SpecFn == InitFn /\ [][NextFn]_vars

\* The repeaters of a session, restarted and ticking in any order.
InitTask == ModalsIdle /\ TrackerIdle /\ FnIdle /\ LaterIdle

NextTask ==
    \/ \E r \in Repeaters : TaskRestart(r)
    \/ TimerTick

SpecTask == InitTask /\ [][NextTask]_vars

\* The renderer of a session: any revision, nothing loaded yet.
InitReader ==
    /\ ModalsIdle /\ TrackerIdle /\ FnIdle /\ TaskIdle /\ PosIdle /\ StyleIdle /\ MoreIdle
    /\ renderer \in Renderers
    /\ pageLoads = <<>>
    /\ rootContent = <<>>
    /\ progressCall = NoPageLoad
    /\ progressLast = NoProgressTick

NextReader ==
    \/ OpenPage
    \/ \E c \in 1..MaxCalls : FetchSettle(c)
    \/ \E c \in 1..MaxCalls : PrefsSettle(c)
    \/ \E c \in 1..MaxCalls : SavedSettle(c)

SpecReader == InitReader /\ [][NextReader]_vars

\* The same, with the event loop running every callback that is due: a
\* request that was sent gets its load or error event, a promise that
\* settled runs its continuation.
SpecReaderLive == SpecReader /\ WF_vars(NextReader)

\* The renderer with the ticks of the reading-position task.
NextReaderTicks ==
    \/ NextReader
    \/ ProgressTick

SpecReaderTicks == InitReader /\ [][NextReaderTicks]_vars

\* The position formulas on every geometry within the bounds.
InitPos ==
    /\ ModalsIdle /\ TrackerIdle /\ FnIdle /\ TaskIdle /\ ReaderIdle /\ StyleIdle /\ MoreIdle
    /\ geometry \in Geometries
    /\ posStep = "measured"
    /\ published = <<>>
    /\ restored = <<>>

NextPos ==
    \/ PublishPosition
    \/ RestorePosition

SpecPos == InitPos /\ [][NextPos]_vars

\* The styles of a session: a revision of the editor with a styler it was
\* written for, the page's controls at their initial values, a new styler
\* and the saved record of the book opened first.
InitStyle ==
    /\ ModalsIdle /\ TrackerIdle /\ FnIdle /\ TaskIdle /\ ReaderIdle /\ PosIdle /\ MoreIdle
    /\ editor \in Editors
    /\ styler \in Stylers
    /\ styler = "Styler/custom" => editor = "custom"
    /\ prefsStore \in BOOLEAN
    /\ stylesCall = [pc |-> "idle", css |-> <<>>, loaded |-> FALSE]
    /\ defaults \in DefaultValues
    /\ inputs = defaults
    /\ handleChange = FALSE
    /\ filewiseStyles = <<>>
    /\ layers = NewLayers
    /\ savedStyles \in SavedFiles
    /\ styleLast = StyleOp("none", FALSE, TRUE)

NextStyle ==
    \/ \E css \in PageCss : ProcessStyles(css)
    \/ \E prefs \in PrefsOutcomes : LoadAppPrefs(prefs)
    \/ \E file \in {savedStyles} \cup SavedFiles, readFails \in BOOLEAN :
          CommitFromFile(file, readFails)
    \/ \E key \in Keys : \E v \in InputValues[key] : ChangeEvent(key, v)
    \/ ReloadApp

SpecStyle == InitStyle /\ [][NextStyle]_vars

\* Calls of #customPropertyForFont on every two names within the bounds.
EarlierIdle ==
    /\ ModalsIdle /\ TrackerIdle /\ FnIdle
    /\ TaskIdle /\ ReaderIdle /\ PosIdle /\ StyleIdle

InitFont ==
    /\ EarlierIdle /\ SpineIdle /\ LoadIdle /\ TocIdle /\ ContextIdle
    /\ fontNames \in FontNames \X FontNames
    /\ fontProps = <<>>

NextFont == ApplyCustomPropertyForFont

SpecFont == InitFont /\ [][NextFont]_vars

\* A reading session that starts at an item of the spine.
InitSpine ==
    /\ EarlierIdle /\ FontIdle /\ LoadIdle /\ TocIdle /\ ContextIdle
    /\ navigator \in Navigators
    /\ \E page \in 1..SpineLen :
          /\ readingPosition = Position(Url(page), Index(page - 1))
          /\ spineLast = Navigation("none", FALSE, readingPosition, FALSE, <<>>)

NextSpine ==
    \/ \E page \in Pages : JumpTo(page)
    \/ \E forward \in BOOLEAN : MoveInSpine(forward)

SpecSpine == InitSpine /\ [][NextSpine]_vars

\* A new styler; the pages of the book link any of the stylesheets, and
\* the backend answers every request.
InitLoad ==
    EarlierIdle /\ FontIdle /\ SpineIdle /\ LoadIdle /\ TocIdle /\ ContextIdle

NextLoad ==
    \/ \E paths \in SUBSET SheetPaths : StylerLoad(paths)
    \/ \E path \in SheetPaths, outcome \in {"content", "empty", "rejected"} :
          GetResourceSettle(path, outcome)
    \/ AllSettled

SpecLoad == InitLoad /\ [][NextLoad]_vars /\ WF_vars(NextLoad)

\* The nav modal of a session, initialised and closed.
InitToc ==
    EarlierIdle /\ FontIdle /\ SpineIdle /\ LoadIdle /\ TocIdle /\ ContextIdle

NextToc ==
    \/ TocShow
    \/ \E value \in TocValues : ChooseEntry(value)
    \/ \E cause \in {"backdrop", "escape", "coordinator"} :
          CloseWithoutChoice(cause)

SpecToc == InitToc /\ [][NextToc]_vars

\* Context before any book is opened.
InitContext ==
    EarlierIdle /\ FontIdle /\ SpineIdle /\ LoadIdle /\ TocIdle /\ ContextIdle

NextContext ==
    \/ \E b \in Books : SetOpenedEpub(b)
    \/ GetEpubLang
    \/ GetEpubTitle
    \/ \E path \in SpinePaths : SetReadingPositionUrl(path)

SpecContext == InitContext /\ [][NextContext]_vars

(***************************************************************************)
(* Claims about the modals                                                 *)
(***************************************************************************)

OpenModals == {m \in Modals : open[m]}

ClosedBy(x) == last.closeRet[x] # "none"

\* C1: after any sequence of show, close, init and backdrop-click
\* operations at most one modal's dialog is open.
C1_AtMostOneOpen == Cardinality(OpenModals) <= 1

\* C1 witness: a show has opened one modal and closed the one open before.
C1_Witness ==
    /\ last.op = "show" /\ last.ret = "true" /\ open[last.arg]
    /\ \E a \in Modals \ {last.arg} : last.preOpen[a] /\ ~open[a]

\* C2: ModalCoordinator.show(m) returns true exactly when it opened m; when
\* m is locked or already open it returns false and no modal's open or
\* locked state has changed.
C2_ShowReturn ==
    last.op = "show" =>
        /\ (last.ret = "true") <=> (~last.preOpen[last.arg] /\ open[last.arg])
        /\ (last.preLocked[last.arg] \/ last.preOpen[last.arg]) =>
               /\ last.ret = "false"
               /\ open = last.preOpen
               /\ locked = last.preLocked

\* C2 witness: show was called on a locked modal and returned false.
C2_Witness ==
    /\ last.op = "show" /\ last.ret = "false"
    /\ last.preLocked[last.arg] /\ ~last.preOpen[last.arg]

C4_Case(A) ==
    /\ last.op = "show" /\ A # last.arg
    /\ last.preOpen[A] /\ ~last.preLocked[A]
    /\ ~last.preOpen[last.arg] /\ ~last.preLocked[last.arg]

\* C4: when A is open and unlocked and B closed and unlocked, show(B)
\* returns true and afterwards A is closed and B is open.
C4_SwitchModal ==
    \A A \in Modals :
        C4_Case(A) => (last.ret = "true" /\ ~open[A] /\ open[last.arg])

\* C4 witness: such a show(B) has happened.
C4_Witness == \E A \in Modals : C4_Case(A)

\* C5 as claimed: close() returns true only when it moved the modal from
\* unlocked-open to unlocked-closed, and false whenever the modal is locked.
C5_CloseAsClaimed ==
    \A x \in Modals :
        /\ last.closeRet[x] = "true" =>
               (last.preOpen[x] /\ ~last.preLocked[x] /\ ~open[x])
        /\ (ClosedBy(x) /\ last.preLocked[x]) =>
               (last.closeRet[x] = "false" /\ open[x] = last.preOpen[x])

\* C5 amended: close() returns false exactly when the dialog is open and
\* the modal is locked, and then leaves the dialog open; in every other case
\* it returns true and the dialog is closed afterwards, which includes the
\* already closed dialog (locked or not), where nothing was moved.
C5_CloseVeto ==
    \A x \in Modals :
        ClosedBy(x) =>
            /\ (last.closeRet[x] = "false") <=> (last.preOpen[x] /\ last.preLocked[x])
            /\ last.closeRet[x] = "false" => open[x]
            /\ last.closeRet[x] = "true" => ~open[x]
            /\ locked[x] = last.preLocked[x]

\* C5 witness: close() was called on a locked, closed modal and returned
\* true.
C5_Witness ==
    \E x \in Modals :
        last.closeRet[x] = "true" /\ last.preLocked[x] /\ ~last.preOpen[x]

C7_NavClosedBeforeInit == open["nav"] => navInit = "done"

(***************************************************************************)
(* Claims about the tracker                                                *)
(***************************************************************************)

\* The resolved offset of button i of the call drawn in fnIn.
FnOffset(i) == AnchoredOffset(fnIn.entries[i], fnIn.layout)

\* The buttons of the current path whose resolved offset is <= the offset.
FnQualifying ==
    {i \in 1..Len(fnIn.entries) :
        fnIn.entries[i].path = fnIn.currentPath /\ FnOffset(i) <= fnIn.offset}

\* C8: among the entries of the current path whose resolved offset is <= the
\* offset, mostRecentNavPoint returns the one with the greatest resolved
\* offset, and among several with that offset the last in document order.
C8_NearestPreceding ==
    (fnOut # NotCalled /\ FnQualifying # {}) =>
        /\ fnOut[1] \in FnQualifying
        /\ \A j \in FnQualifying :
              \/ FnOffset(j) < FnOffset(fnOut[1])
              \/ (FnOffset(j) = FnOffset(fnOut[1]) /\ j <= fnOut[1])

\* C8 witness: three candidates at the offsets 0, 1 and 2, and the call for
\* the offset 1 returned the candidate at 1.
C8_Witness ==
    /\ fnOut # NotCalled /\ fnOut[1] # NullBtn
    /\ fnIn.offset = 1 /\ FnOffset(fnOut[1]) = 1
    /\ \A o \in 0..2 :
          \E i \in 1..Len(fnIn.entries) :
              fnIn.entries[i].path = fnIn.currentPath /\ FnOffset(i) = o

\* C9 as claimed: when no entry of the current page has a resolved offset
\* <= the scroll offset, the routine yields null and the TOC label is the
\* default title; it never falls back to the lowest-offset entry.
C9_NullAsClaimed ==
    (lastRun.by # "none" /\ lastRun.noneQualifies) =>
        (lastRun.result = NullBtn /\ tocLabel = NullBtn)

\* C9 amended: in that case mostRecentNavPoint with
\* ReadScreen.#setTocBtnLabel yields null and resets the label to the
\* default title, whereas the task of NavModal.restartClosestNavPointTask
\* yields null only for a page without entries: with entries on the page it
\* falls back to an entry with the least resolved offset (the only entry
\* when there is one) and shows its label.
C9_NoLandmark ==
    (lastRun.by # "none" /\ lastRun.noneQualifies) =>
        IF tracker = "ReadScreen" \/ lastRun.lowest = {}
        THEN lastRun.result = NullBtn /\ tocLabel = NullBtn
        ELSE lastRun.result \in lastRun.lowest /\ tocLabel = lastRun.result

\* C9 witness: #setTocBtnLabel ran on a page that has entries, none of them
\* at or before the scroll offset, after an entry had been found earlier,
\* and the label is the default title.
C9_Witness ==
    /\ tracker = "ReadScreen" /\ lastRun.by = "setTocBtnLabel"
    /\ lastRun.noneQualifies /\ lastRun.lowest # {}
    /\ lastRun.prev # NullBtn
    /\ tocLabel = NullBtn

MarkedButtons == {i \in 1..Len(entries) : marks[i].autofocus /\ marks[i].disabled}

\* C10: after any sequence of recomputations at most one TOC entry carries
\* the tracker's marker (autofocus set and disabled).
C10_AtMostOneMarked == Cardinality(MarkedButtons) <= 1

\* C10 witness: a recomputation marked an entry other than the one marked
\* before, and the earlier one is unmarked now.
C10_Witness ==
    /\ lastRun.result # NullBtn /\ lastRun.prev # NullBtn
    /\ lastRun.result # lastRun.prev
    /\ marks[lastRun.result] = Marked
    /\ marks[lastRun.prev] = Unmarked

(***************************************************************************)
(* Claims about TaskRepeater                                               *)
(***************************************************************************)

LiveTimers(r) == {t \in intervals : t.task = r}

\* C11: for each TaskRepeater, after any sequence of restart calls at most
\* one interval timer is live, and the callback run last is the one of the
\* latest restart: no callback of an earlier generation runs after a later
\* restart.
C11_OneGeneration ==
    \A r \in Repeaters :
        /\ Cardinality(LiveTimers(r)) <= 1
        /\ \A t \in LiveTimers(r) : t.gen = generation[r] /\ t.id = handle[r]
        /\ ranGen[r] = generation[r]

\* C11 witness: a timer ticked on a repeater that has been restarted more
\* than once.
C11_Witness ==
    /\ taskLast.op = "tick"
    /\ generation[taskLast.task] >= 2
    /\ taskLast.gen = generation[taskLast.task]

(***************************************************************************)
(* Claims about the page renderer                                          *)
(***************************************************************************)

\* The position of the step x in the sequence order.
StepPos(order, x) == CHOOSE i \in DOMAIN order : order[i] = x

\* The steps st are steps of order, each at most once, in order's order.
InOrder(st, order) ==
    /\ \A i \in DOMAIN st : st[i] \in Range(order)
    /\ \A i, j \in DOMAIN st :
          i < j => StepPos(order, st[i]) < StepPos(order, st[j])

\* The order of the steps as the contract states it.
ContractOrder ==
    <<"clear", "fetch", "rewrite", "styles", "insert", "scroll", "restart">>

\* The order of the steps of Reader.open.
ReaderOpenOrder ==
    <<"clear", "fetch", "styles", "rewrite", "insert", "scroll", "restart">>

\* C12 as claimed: every call performs its steps in the order clear, fetch,
\* rewrite the references, load the styles, insert, restore the scroll
\* position, restart the task.
C12_OrderAsClaimed ==
    \A c \in DOMAIN pageLoads : InOrder(pageLoads[c].steps, ContractOrder)

\* C12 amended: renderBookPage performs its steps in the order of the
\* contract, whereas Reader.open loads the styles before it rewrites the
\* references.  In both, a call that reaches its end has cleared the root,
\* fetched, rewritten, loaded the styles, inserted the content and
\* restarted the task, in that order with the restart last, and has
\* restored the scroll position between the insertion and the restart when
\* the target is an anchor id (never when the target is null); a call that
\* stops earlier has performed a prefix of these steps, the clearing first.
C12_StepOrder ==
    \A c \in DOMAIN pageLoads :
        LET st == pageLoads[c].steps
            order == IF renderer = "renderBookPage" THEN ContractOrder
                     ELSE ReaderOpenOrder
        IN /\ InOrder(st, order)
           /\ st[1] = "clear"
           /\ \A i \in DOMAIN st : \A x \in Range(order) \ {"scroll"} :
                 StepPos(order, x) < StepPos(order, st[i]) => x \in Range(st)
           /\ pageLoads[c].pc = "done" <=> "restart" \in Range(st)
           /\ "restart" \in Range(st) =>
                 /\ st[Len(st)] = "restart"
                 /\ generation["saveReadingProgressTask"] >= 1
                 /\ pageLoads[c].target = "id" => "scroll" \in Range(st)
                 /\ pageLoads[c].target = "null" => "scroll" \notin Range(st)

\* C12 witness: a call of Reader.open with an anchor id has run to its end,
\* and its body is in the root.
C12_Witness ==
    /\ renderer = "Reader.open/custom"
    /\ \E c \in DOMAIN pageLoads :
          /\ pageLoads[c].pc = "done" /\ pageLoads[c].target = "id"
          /\ pageLoads[c].steps = ReaderOpenOrder
          /\ Node("body", c) \in Range(rootContent)

(***************************************************************************)
(* Claims about the fractional position                                    *)
(***************************************************************************)

\* C13 as claimed: for a content height > 0, getCurrentPositionInverse of
\* getCurrentPosition equals the scroll offset that produced the geometry.
C13_InverseExact ==
    (posStep = "restored" /\ geometry.contentHeight > 0) =>
        restored[1] = Number(geometry.scrollTop)

\* The fraction n / d is at most 2^(-Precision) times the fraction k / 5.
WithinUlps(n, d, k) ==
    IF d >= Pow2(Precision)
    THEN 5 * n <= k * (d \div Pow2(Precision))
    ELSE 5 * n * Pow2(Precision) <= k * d

\* C13 amended: for a content height > 0 the round trip recovers the scroll
\* offset s within floating-point tolerance: the result differs from s by at
\* most 4 * 2^(-Precision) * (box.height / 5 + s), four units in the last
\* place of the quantity the formulas divide and multiply.
C13_InverseWithinTolerance ==
    (posStep = "restored" /\ geometry.contentHeight > 0) =>
        LET r == restored[1]
            s == geometry.scrollTop
        IN /\ r.kind = "finite"
           /\ WithinUlps(Abs(Num(r) - s * Den(r)), Den(r),
                         4 * (geometry.boxHeight + 5 * s))

\* C13 witness: a round trip on scrolled content returned a number other
\* than the scroll offset.
C13_Witness ==
    /\ posStep = "restored"
    /\ geometry.contentHeight > 0 /\ geometry.scrollTop > 0
    /\ restored[1] # Number(geometry.scrollTop)

\* C14: every fraction published as the reading position lies in 0.0 - 1.0.
C14_FractionInRange ==
    published # <<>> =>
        /\ published[1].kind = "finite"
        /\ 0 <= Num(published[1])
        /\ Num(published[1]) <= Den(published[1])


(***************************************************************************)
(* Claims about the per-book styles                                        *)
(***************************************************************************)

\* The text t is a number between lo and hi.
TextWithin(t, lo, hi) ==
    /\ ~t.nan
    /\ lo * Pow10(t.digits) <= t.units
    /\ t.units <= hi * Pow10(t.digits)

\* C15: for every record handed to the styler, the font size formatted
\* into the per-book CSS is between 8 and 72, the line-height scale
\* between 0.2 and 6.0 (2/10 and 60/10), and the inline margin formatted
\* for the host's padding between 0 and the styler's maximum.
C15_FormattedInRange ==
    filewiseStyles # <<>> =>
        LET h == HostStyle(styler, filewiseStyles[1])
        IN /\ TextWithin(h.fontSize, 8, 72)
           /\ 10 * h.lineHeightScale.units >= 2 * Pow10(h.lineHeightScale.digits)
           /\ 10 * h.lineHeightScale.units <= 60 * Pow10(h.lineHeightScale.digits)
           /\ ~h.lineHeightScale.nan
           /\ TextWithin(h.paddingInline, 0, MaxInlineMargin(styler))

\* C16: after a change event of a control, once a page load has run the
\* editor, the record committed last and the record saved last are the
\* record staged in the controls.
C16_CommitAndSave ==
    (styleLast.op = "change" /\ stylesCall.loaded) =>
        /\ ~styleLast.rejected
        /\ filewiseStyles = <<Staged(inputs)>>
        /\ savedStyles.staged = <<Staged(inputs)>>

\* The values of the record styles lie in the documented ranges.
InRanges(s, styles) ==
    /\ \A k \in Keys : styles[k].kind = "finite"
    /\ ~Less(styles["base-font-size"], Number(8))
    /\ ~Less(Number(72), styles["base-font-size"])
    /\ ~Less(styles["line-height-scale"], Number(2))
    /\ ~Less(Number(60), styles["line-height-scale"])
    /\ ~Less(styles["inline-margin"], Number(0))
    /\ ~Less(Number(MaxInlineMargin(s)), styles["inline-margin"])

\* C17: when a record within the ranges was saved by the change handler
\* and commitFromFile then loads it into controls at their initial
\* values, the record committed is the record that was saved.
C17_RoundTrip ==
    (/\ styleLast.op = "commitFromFile"
     /\ styleLast.fresh
     /\ savedStyles.staged # <<>>
     /\ InRanges(styler, savedStyles.staged[1])) =>
        /\ ~styleLast.rejected
        /\ filewiseStyles = savedStyles.staged

\* C18: after commitFromFile every control of a key of the saved record
\* holds the saved value, every other control holds its initial value,
\* and the record of the controls has been committed.
C18_ControlsFromFile ==
    styleLast.op \in {"commitFromFile", "commitFromFile/noRecord"} =>
        LET saved == IF styleLast.op = "commitFromFile" THEN savedStyles.rec
                     ELSE NoSavedStyles
        IN /\ \A k \in Keys :
                inputs[k] = IF saved[k] # Undefined THEN saved[k] ELSE defaults[k]
           /\ ~styleLast.rejected
           /\ filewiseStyles = <<Staged(inputs)>>

\* C19: the page-native layer holds exactly the CSS of the page handed to
\* the styler last, whatever was committed since; the per-book layer holds
\* the rule of the record committed last and the application layer stays
\* empty without a store, whatever page CSS was set since.
C19_LayerFrame ==
    /\ stylesCall.css # <<>> => layers.pageNative = PageSheet(stylesCall.css[1])
    /\ layers.perBook = IF filewiseStyles = <<>> THEN EmptySheet
                        ELSE HostSheet(HostStyle(styler, filewiseStyles[1]))
    /\ ~prefsStore => layers.app = EmptySheet

\* C20: loadAppPrefs never rejects; when there is no store, or a read was
\* rejected, the application layer is empty and processStyles goes on to
\* read the saved record.
C20_PrefsFailureSwallowed ==
    styleLast.op = "loadAppPrefs" =>
        /\ ~styleLast.rejected
        /\ ~prefsStore => (layers.app = EmptySheet /\ stylesCall.pc # "idle")


(***************************************************************************)
(* Claims about the custom property of a font name                         *)
(***************************************************************************)

\* The property name p is the prefix followed by an even number of
\* hexadecimal digits.
WellFormedProperty(p) ==
    /\ Len(p) >= 1
    /\ p[1] = "--og-font-"
    /\ (Len(p) - 1) % 2 = 0
    /\ \A i \in 2..Len(p) : p[i] \in Range(HexDigits)

\* C21, as claimed: two distinct font names have distinct property
\* names, each the prefix followed by an even number of hexadecimal
\* digits.
C21_Injective ==
    fontProps # <<>> =>
        /\ WellFormedProperty(fontProps[1])
        /\ WellFormedProperty(fontProps[2])
        /\ fontNames[1] # fontNames[2] => fontProps[1] # fontProps[2]

\* No lone surrogate in the name.
WellFormedName(name) == \A i \in DOMAIN name : ~IsSurrogate(name[i])

\* C21, amended: two font names without lone surrogates have the same
\* property name exactly when their lowercase forms are equal, and every
\* property name is the prefix followed by an even number of hexadecimal
\* digits.
C21_InjectiveOnLowerCase ==
    fontProps # <<>> =>
        /\ WellFormedProperty(fontProps[1])
        /\ WellFormedProperty(fontProps[2])
        /\ (WellFormedName(fontNames[1]) /\ WellFormedName(fontNames[2])) =>
              (fontProps[1] = fontProps[2]
                 <=> ToLowerCase(fontNames[1]) = ToLowerCase(fontNames[2]))

\* Reached: a name with a space and a CJK name, with distinct properties.
C21_Witness ==
    /\ fontProps # <<>>
    /\ fontNames = <<<<97, 32>>, <<20013>>>>
    /\ fontProps[1] = <<"--og-font-", "6", "1", "2", "0">>
    /\ fontProps[2] = <<"--og-font-", "e", "4", "b", "8", "a", "d">>


(***************************************************************************)
(* Claims about moving in the spine                                        *)
(***************************************************************************)

\* C22: moveInSpine forward from the last item or backward from the first
\* alerts, hands no page to the renderer and leaves the position; from
\* any other item it hands the adjacent item to the renderer; and every
\* page it hands over, also after a jump to a page outside the spine, is
\* a defined URL, the position's index then within 0..SpineLen-1.
C22_MoveInSpine ==
    spineLast.op = "moveInSpine" =>
        LET from == spineLast.from.index
            to == Moved(from, spineLast.forward)
        IN /\ (from.kind = "number" /\ PastSpine(to)) =>
                 /\ spineLast.alert
                 /\ spineLast.handed = <<>>
                 /\ readingPosition = spineLast.from
           /\ (from.kind = "number" /\ ~PastSpine(to)) =>
                 /\ ~spineLast.alert
                 /\ spineLast.handed = <<Url(to.n + 1)>>
           /\ spineLast.handed # <<>> =>
                 /\ spineLast.handed[1].kind = "url"
                 /\ readingPosition.index.kind = "number"
                 /\ readingPosition.index.n \in 0..(SpineLen - 1)


(***************************************************************************)
(* Claims about the page loads                                             *)
(***************************************************************************)

\* C23: every call of the renderer eventually settles, resolved or
\* rejected, whatever the outcome of its fetch.
C23_EveryLoadSettles ==
    \A c \in 1..MaxCalls :
        [](c \in DOMAIN pageLoads =>
             <>(c \in DOMAIN pageLoads /\ pageLoads[c].pc \in {"done", "rejected"}))


\* C24: a call of the renderer under way is neither held back nor
\* abandoned when a later call starts: whatever calls were made since, the
\* step that follows its pending await can be taken.
C24_NeitherSerializedNorCancelled ==
    \A c \in DOMAIN pageLoads :
        pageLoads[c].pc \notin {"done", "rejected", "pending"} =>
            ENABLED (FetchSettle(c) \/ PrefsSettle(c) \/ SavedSettle(c))

\* Reached: the second page was requested, which emptied the root, and is
\* still being fetched; the first call has since run to its end, its body
\* is in the root and the reading-position task was restarted by it.
C24_Witness ==
    /\ Len(pageLoads) = 2
    /\ pageLoads[2].pc = "fetchXml"
    /\ pageLoads[1].pc = "done"
    /\ Node("body", 1) \in Range(rootContent)
    /\ taskLast.op = "restart"
    /\ handle["saveReadingProgressTask"] # NullHandle


(***************************************************************************)
(* Claims about Styler.load                                                *)
(***************************************************************************)

\* C25: the promise of every call of load eventually resolves, and when
\* it has, every path of the call whose stylesheet was kept or fetched is
\* adopted and every other path was skipped.
C25_LoadCompletes ==
    /\ [](loadPromise = "pending" => <>(loadPromise = "resolved"))
    /\ [](loadPromise = "resolved" =>
            /\ \A path \in SheetPaths :
                  sheetLoad[path] \in {"none", "kept", "adopted", "notFound"}
            /\ Range(adopted) =
                  {path \in SheetPaths : sheetLoad[path] \in {"kept", "adopted"}})


(***************************************************************************)
(* Claims about the close event of the nav modal                           *)
(***************************************************************************)

\* C26: a close of the nav modal by a backdrop click, by Escape or by the
\* coordinator does not call the navigate callback.
C26_NoNavigationWithoutChoice ==
    tocLast.cause \in {"backdrop", "escape", "coordinator"} =>
        tocLast.navigated = <<>>


(***************************************************************************)
(* Claims about the ticks of the reading-position task during a page load  *)
(***************************************************************************)

\* C27: a tick of the reading-position task sends a position only while
\* the root holds the body of the page it reports on: no tick sends one
\* from an emptied root or from a detached body.
C27_NoPositionWithoutContent ==
    (progressLast.op = "tick" /\ progressLast.sent) =>
        (progressLast.inRoot /\ progressLast.finite)


(***************************************************************************)
(* Claims about the marked entry and the page displayed                    *)
(***************************************************************************)

\* C28: once the tracker has run for the page displayed, every entry that
\* carries the marker is an entry of that page: when the run finds no
\* landmark, no entry of an earlier page or offset is left marked.
C28_MarkedIsOfCurrentPage ==
    (lastRun.by = "setTocBtnLabel" /\ lastRun.path = pageUrl /\ taskLive) =>
        /\ \A i \in MarkedButtons : entries[i].path = pageUrl
        /\ lastRun.result = NullBtn => MarkedButtons = {}


(***************************************************************************)
(* Claims about the task of restartClosestNavPointTask                     *)
(***************************************************************************)

\* C30: after restartClosestNavPointTask has been called for a page, the
\* task that is live, if any, is the one of that page, and a run of the
\* task sets the label and the marker from that page's entries.
C30_TaskOfCurrentPage ==
    tracker = "NavModal" =>
        /\ taskLive =>
              \A k \in 1..Len(navPoints) : entries[navPoints[k][1]].path = pageUrl
        /\ lastRun.by = "task" => lastRun.path = pageUrl


(***************************************************************************)
(* Claims about the values Context derives from the opened book            *)
(***************************************************************************)

\* C29: a getter of Context that returns, returns the value computed from
\* the book opened last: the language, the title and the spine index are
\* never those of a book opened before.
C29_DerivedFromOpened ==
    (~contextLast.thrown /\ openedEpub # <<>>) =>
        /\ contextLast.op = "getEpubLang" =>
              contextLast.value = LangOf(openedEpub[1])
        /\ contextLast.op = "getEpubTitle" =>
              contextLast.value = TitleOf(openedEpub[1])
        /\ contextLast.op = "setReadingPositionUrl" =>
              contextLast.value[2] =
                  SpineIndexOf(openedEpub[1])[contextLast.value[1]]

====
